---- MODULE Spec2Model ----
(***************************************************************************)
(* State-machine model of embeddenator-agent-mcp: the provider router      *)
(* (src/src/router.rs), the workflow data type (src/src/workflow.rs) and   *)
(* the orchestrator operations that drive them (src/src/orchestrator.rs).  *)
(*                                                                         *)
(* Conventions.                                                            *)
(*   Option<T>      None is <<>>, Some(v) is <<v>>.                        *)
(*   HashMap<K,V>   a function whose DOMAIN is the set of present keys.    *)
(*   Instant        whole seconds since the router was created (now).      *)
(*   Duration       latencies are in milliseconds.                         *)
(*   f64 score      score_provider is kept in tenths (score * 10), which   *)
(*                  is an integer: every term of the score is an integer   *)
(*                  except 0.1 * (total_requests % 100).                   *)
(*   ProviderHealth.last_success is written and never read; it is left out.*)
(***************************************************************************)
EXTENDS Integers, Sequences, FiniteSets, TLC

VARIABLES
    preferences,   \* ProviderRouter.preferences
    health,        \* ProviderRouter.health
    stats,         \* ProviderRouter.stats
    now,           \* the monotonic clock (Instant::now), in seconds
    workflows,     \* AgentOrchestrator.workflows
    ret,           \* the most recent call and the value it returned
    failRun,       \* history: per provider, the failures recorded since its last success
    events,        \* history: how many outcomes have been recorded in this run
    tasks,         \* the calls in flight: per caller, the call and the await it stands at
    routerLock,    \* AgentOrchestrator.router: who holds the RwLock
    storeLock,     \* AgentOrchestrator.workflows: who holds the RwLock
    sessions,      \* per caller, the adapter session of its call
    log,           \* history: the outcomes recorded, in the order they were applied
    calls,         \* history: how many calls have been started
    stdio          \* run_stdio: the input lines, where the loop stands, the lines written

vars == <<preferences, health, stats, now, workflows, ret, failRun, events,
          tasks, routerLock, storeLock, sessions, log, calls, stdio>>

\* the state of the calls in flight
callVars == <<tasks, routerLock, storeLock, sessions, log, calls, stdio>>

routerVars == <<preferences, health, stats>>

(***************************************************************************)
(* Bounds of the model.                                                    *)
(***************************************************************************)
\* number of record_success / record_failure events in a run
MaxRequests == 4
\* the clock stops at MaxNow seconds
MaxNow == 300
\* seconds that pass in one Tick
TickStep == 150
\* longest workflow handed to start_workflow
MaxSteps == 2

\* latencies (ms) measured for a successful request
Latencies == {12000}
\* providers on which the environment records outcomes directly
RecProviders == {"Claude", "ChatGpt"}
\* values of the count argument of select_multiple
Counts == {3, 6}
\* ids of the workflows handed to start_workflow
WorkflowIds == {"w1"}

None == <<>>

Some(v) == <<v>>

(***************************************************************************)
(* embeddenator_webpuppet::Provider (external crate).                      *)
(***************************************************************************)
ProviderAll == <<"Claude", "Grok", "Gemini", "ChatGpt", "Perplexity", "NotebookLm">>

Providers == {ProviderAll[i] : i \in 1..Len(ProviderAll)}

SearchProviders == {"Grok", "ChatGpt", "Perplexity"}

LargeContextProviders == {"Claude", "Gemini", "NotebookLm"}

\* str::to_lowercase on the strings that occur in the model
ToLowercase(s) ==
    CASE s \in {"Claude", "CLAUDE", "claude"} -> "claude"
      [] s \in {"Grok", "grok"} -> "grok"
      [] s \in {"Gemini", "GEMINI", "gemini"} -> "gemini"
      [] s \in {"ChatGpt", "ChatGPT", "chatgpt"} -> "chatgpt"
      [] s \in {"Perplexity", "perplexity"} -> "perplexity"
      [] s \in {"NotebookLm", "NotebookLM", "notebooklm"} -> "notebooklm"
      [] s \in {"OpenAI", "openai"} -> "openai"
      [] s \in {"Notebook", "notebook"} -> "notebook"
      [] OTHER -> s

\* Provider's Display (provider.to_string())
ProviderToString(p) == p

TaskTypes == {"General", "Search", "LargeContext", "Code", "Creative"}

(***************************************************************************)
(* ProviderPreferences                                                     *)
(***************************************************************************)
DefaultPriority == 50

ProviderPreferences_default ==
    [priorities |-> [k \in {"claude", "chatgpt", "gemini", "grok", "perplexity", "notebooklm"} |->
                        CASE k = "claude" -> 100
                          [] k = "chatgpt" -> 90
                          [] k = "gemini" -> 80
                          [] k = "grok" -> 70
                          [] k = "perplexity" -> 60
                          [] k = "notebooklm" -> 50],
     disabled |-> <<>>]

priority(prefs, provider) ==
    LET k == ToLowercase(ProviderToString(provider))
    IN  IF k \in DOMAIN prefs.priorities THEN prefs.priorities[k] ELSE DefaultPriority

is_disabled(prefs, provider) ==
    \E i \in 1..Len(prefs.disabled) :
        ToLowercase(prefs.disabled[i]) = ToLowercase(ProviderToString(provider))

\* the preferences a router is built with (ProviderRouter::new, with_preferences)
PreferenceChoices ==
    { ProviderPreferences_default,
      [ProviderPreferences_default EXCEPT
          !.disabled = <<"Claude", "grok", "GEMINI", "chatgpt", "perplexity", "NotebookLM">>] }

(***************************************************************************)
(* ProviderHealth                                                          *)
(***************************************************************************)
HealthWindow == 300

FailureThreshold == 3

ProviderHealth_default ==
    [last_failure |-> None, consecutive_failures |-> 0, avg_latency |-> None]

\* faulty variant: the window test is <= instead of <
ProviderHealth_is_healthy_inclusive(h, t) ==
    IF h.consecutive_failures >= FailureThreshold
    THEN IF h.last_failure # None
         THEN IF t - h.last_failure[1] <= HealthWindow THEN FALSE ELSE TRUE
         ELSE TRUE
    ELSE TRUE

\* faulty variant: the threshold is one failure too low
ProviderHealth_is_healthy_early(h, t) ==
    IF h.consecutive_failures >= FailureThreshold - 1
    THEN IF h.last_failure # None
         THEN IF t - h.last_failure[1] < HealthWindow THEN FALSE ELSE TRUE
         ELSE TRUE
    ELSE TRUE

\* faulty variant: the test of consecutive_failures is missing
ProviderHealth_is_healthy_anyFailure(h, t) ==
    IF h.last_failure # None
    THEN IF t - h.last_failure[1] < HealthWindow THEN FALSE ELSE TRUE
    ELSE TRUE

ProviderHealth_is_healthy(h, t) ==
    IF h.consecutive_failures >= FailureThreshold
    THEN IF h.last_failure # None
         THEN IF t - h.last_failure[1] < HealthWindow THEN FALSE ELSE TRUE
         ELSE TRUE
    ELSE TRUE

\* faulty variant: consecutive_failures is not reset
ProviderHealth_record_success_noReset(h, latency) ==
    [h EXCEPT !.avg_latency = IF h.avg_latency # None
                              THEN Some((h.avg_latency[1] * 9 + latency) \div 10)
                              ELSE Some(latency)]

\* faulty variant: the weights of the history and of the new sample are swapped
ProviderHealth_record_success_swapped(h, latency) ==
    [h EXCEPT !.consecutive_failures = 0,
              !.avg_latency = IF h.avg_latency # None
                              THEN Some((h.avg_latency[1] + latency * 9) \div 10)
                              ELSE Some(latency)]

ProviderHealth_record_success(h, latency) ==
    [h EXCEPT !.consecutive_failures = 0,
              !.avg_latency = IF h.avg_latency # None
                              THEN Some((h.avg_latency[1] * 9 + latency) \div 10)
                              ELSE Some(latency)]

ProviderHealth_record_failure(h, t) ==
    [h EXCEPT !.last_failure = Some(t),
              !.consecutive_failures = h.consecutive_failures + 1]

ProviderStats_default ==
    [total_requests |-> 0, successful_requests |-> 0, failed_requests |-> 0]

(***************************************************************************)
(* ProviderRouter.  A router value is [preferences, health, stats].        *)
(***************************************************************************)
\* HashMap::entry(k).or_default() followed by a write of v
Put(m, k, v) == [x \in (DOMAIN m) \cup {k} |-> IF x = k THEN v ELSE m[x]]

EntryOrDefault(m, k, d) == IF k \in DOMAIN m THEN m[k] ELSE d

is_healthy(r, provider, t) ==
    IF provider \in DOMAIN r.health
    THEN ProviderHealth_is_healthy(r.health[provider], t)
    ELSE TRUE

available_providers(r, t) ==
    SelectSeq(ProviderAll, LAMBDA p : is_healthy(r, p, t))

\* faulty variant: the bonus of the search-capable providers is missing
score_provider_noSearchBonus(r, provider, task_type) ==
    LET base == 10 * priority(r.preferences, provider)
        bonus ==
            CASE task_type = "LargeContext" ->
                    IF provider \in LargeContextProviders THEN 300 ELSE 0
              [] task_type = "Code" ->
                    IF provider \in {"Claude", "ChatGpt"} THEN 200 ELSE 0
              [] task_type = "Creative" ->
                    IF provider \in {"Gemini", "Claude"} THEN 150 ELSE 0
              [] OTHER -> 0
        failPenalty ==
            IF provider \in DOMAIN r.health
            THEN IF r.health[provider].consecutive_failures > 0
                 THEN 10 * (r.health[provider].consecutive_failures * 10)
                 ELSE 0
            ELSE 0
        latPenalty ==
            IF provider \in DOMAIN r.health /\ r.health[provider].avg_latency # None
            THEN 10 * (r.health[provider].avg_latency[1] \div 1000)
            ELSE 0
        usage_penalty ==
            IF provider \in DOMAIN r.stats
            THEN r.stats[provider].total_requests % 100
            ELSE 0
    IN  base + bonus - failPenalty - latPenalty - usage_penalty

\* faulty variant: the usage term is not scaled by 0.1
score_provider_unscaledUsage(r, provider, task_type) ==
    LET base == 10 * priority(r.preferences, provider)
        bonus ==
            CASE task_type = "Search" ->
                    IF provider \in SearchProviders THEN 500 ELSE 0
              [] task_type = "LargeContext" ->
                    IF provider \in LargeContextProviders THEN 300 ELSE 0
              [] task_type = "Code" ->
                    IF provider \in {"Claude", "ChatGpt"} THEN 200 ELSE 0
              [] task_type = "Creative" ->
                    IF provider \in {"Gemini", "Claude"} THEN 150 ELSE 0
              [] OTHER -> 0
        failPenalty ==
            IF provider \in DOMAIN r.health
            THEN IF r.health[provider].consecutive_failures > 0
                 THEN 10 * (r.health[provider].consecutive_failures * 10)
                 ELSE 0
            ELSE 0
        latPenalty ==
            IF provider \in DOMAIN r.health /\ r.health[provider].avg_latency # None
            THEN 10 * (r.health[provider].avg_latency[1] \div 1000)
            ELSE 0
        usage_penalty ==
            IF provider \in DOMAIN r.stats
            THEN 10 * (r.stats[provider].total_requests % 100)
            ELSE 0
    IN  base + bonus - failPenalty - latPenalty - usage_penalty

\* the score in tenths
score_provider(r, provider, task_type) ==
    LET base == 10 * priority(r.preferences, provider)
        bonus ==
            CASE task_type = "Search" ->
                    IF provider \in SearchProviders THEN 500 ELSE 0
              [] task_type = "LargeContext" ->
                    IF provider \in LargeContextProviders THEN 300 ELSE 0
              [] task_type = "Code" ->
                    IF provider \in {"Claude", "ChatGpt"} THEN 200 ELSE 0
              [] task_type = "Creative" ->
                    IF provider \in {"Gemini", "Claude"} THEN 150 ELSE 0
              [] OTHER -> 0
        failPenalty ==
            IF provider \in DOMAIN r.health
            THEN IF r.health[provider].consecutive_failures > 0
                 THEN 10 * (r.health[provider].consecutive_failures * 10)
                 ELSE 0
            ELSE 0
        latPenalty ==
            IF provider \in DOMAIN r.health /\ r.health[provider].avg_latency # None
            THEN 10 * (r.health[provider].avg_latency[1] \div 1000)
            ELSE 0
        usage_penalty ==
            IF provider \in DOMAIN r.stats
            THEN r.stats[provider].total_requests % 100
            ELSE 0
    IN  base + bonus - failPenalty - latPenalty - usage_penalty

\* faulty variant: the comparison is >= instead of >
RECURSIVE select_best_loop_last(_, _, _, _)
select_best_loop_last(r, task_type, rest, best) ==
    IF rest = <<>> THEN best
    ELSE LET provider == Head(rest)
             score == score_provider(r, provider, task_type)
         IN  IF best = None \/ score >= best[1][2]
             THEN select_best_loop_last(r, task_type, Tail(rest), Some(<<provider, score>>))
             ELSE select_best_loop_last(r, task_type, Tail(rest), best)

\* the loop of select_best: best is None or Some(<<provider, score>>)
RECURSIVE select_best_loop(_, _, _, _)
select_best_loop(r, task_type, rest, best) ==
    IF rest = <<>> THEN best
    ELSE LET provider == Head(rest)
             score == score_provider(r, provider, task_type)
         IN  IF best = None \/ score > best[1][2]
             THEN select_best_loop(r, task_type, Tail(rest), Some(<<provider, score>>))
             ELSE select_best_loop(r, task_type, Tail(rest), best)

Ok(v) == [ok |-> TRUE, val |-> v, err |-> "none"]

Err(e) == [ok |-> FALSE, val |-> <<>>, err |-> e]

\* Ok(<<provider>>) or Err("NoProviders")
select_best(r, task_type, t) ==
    LET available == available_providers(r, t)
    IN  IF available = <<>> THEN Err("NoProviders")
        ELSE LET best == select_best_loop(r, task_type, available, None)
             IN  IF best = None THEN Err("NoProviders") ELSE Ok(<<best[1][1]>>)

\* faulty variant: the comparator is a.partial_cmp(b), an ascending sort
RECURSIVE InsertByScore_ascending(_, _)
InsertByScore_ascending(sorted, x) ==
    IF sorted = <<>> THEN <<x>>
    ELSE IF Head(sorted)[2] <= x[2]
         THEN <<Head(sorted)>> \o InsertByScore_ascending(Tail(sorted), x)
         ELSE <<x>> \o sorted

\* slice::sort_by with |(_, a), (_, b)| b.partial_cmp(a): a stable sort of the
\* <<provider, score>> pairs, descending by score; a pair goes after every pair
\* whose score is greater than or equal to its own
RECURSIVE InsertByScore(_, _)
InsertByScore(sorted, x) ==
    IF sorted = <<>> THEN <<x>>
    ELSE IF Head(sorted)[2] >= x[2]
         THEN <<Head(sorted)>> \o InsertByScore(Tail(sorted), x)
         ELSE <<x>> \o sorted

RECURSIVE SortByScore(_, _)
SortByScore(rest, sorted) ==
    IF rest = <<>> THEN sorted
    ELSE SortByScore(Tail(rest), InsertByScore(sorted, Head(rest)))

select_multiple(r, count, task_type, t) ==
    LET available == available_providers(r, t)
    IN  IF Len(available) < count THEN Err("NoProviders")
        ELSE LET scored == SortByScore([i \in 1..Len(available) |->
                                          <<available[i], score_provider(r, available[i], task_type)>>],
                                       <<>>)
             IN  Ok([i \in 1..count |-> scored[i][1]])

record_success(r, provider, latency) ==
    LET h == EntryOrDefault(r.health, provider, ProviderHealth_default)
        s == EntryOrDefault(r.stats, provider, ProviderStats_default)
    IN  [r EXCEPT
            !.health = Put(r.health, provider, ProviderHealth_record_success(h, latency)),
            !.stats = Put(r.stats, provider,
                          [s EXCEPT !.total_requests = s.total_requests + 1,
                                    !.successful_requests = s.successful_requests + 1])]

\* faulty variant: total_requests is not counted for a failure
record_failure_noTotal(r, provider, t) ==
    LET h == EntryOrDefault(r.health, provider, ProviderHealth_default)
        s == EntryOrDefault(r.stats, provider, ProviderStats_default)
    IN  [r EXCEPT
            !.health = Put(r.health, provider, ProviderHealth_record_failure(h, t)),
            !.stats = Put(r.stats, provider,
                          [s EXCEPT !.failed_requests = s.failed_requests + 1])]

record_failure(r, provider, t) ==
    LET h == EntryOrDefault(r.health, provider, ProviderHealth_default)
        s == EntryOrDefault(r.stats, provider, ProviderStats_default)
    IN  [r EXCEPT
            !.health = Put(r.health, provider, ProviderHealth_record_failure(h, t)),
            !.stats = Put(r.stats, provider,
                          [s EXCEPT !.total_requests = s.total_requests + 1,
                                    !.failed_requests = s.failed_requests + 1])]

(***************************************************************************)
(* Workflow, WorkflowStep (workflow.rs).  A step is                        *)
(* [step_type, state, config, result]; a config is                         *)
(* [type, provider, providers, min_providers] with the fields its variant  *)
(* does not have left at None, <<>> and 0.  StepState::Failed(reason) and  *)
(* WorkflowState::Failed(reason) are "Failed".  A text is [src, len]: the  *)
(* provider that wrote it and its length.                                  *)
(***************************************************************************)
Workflow_new == [state |-> "Pending", steps |-> <<>>, current_step |-> 0]

add_step(w, step) == [w EXCEPT !.steps = Append(w.steps, step)]

\* steps.get(current_step), with the 0-based cursor of the code
current(w) ==
    IF w.current_step < Len(w.steps) THEN Some(w.steps[w.current_step + 1]) ELSE None

\* faulty variant: the cursor moves once more when the last step is done
advance_overshoot(w) ==
    IF w.current_step >= Len(w.steps)
    THEN [ok |-> FALSE, w |-> w]
    ELSE LET n == w.current_step + 1
         IN  [ok |-> TRUE,
              w |-> [w EXCEPT !.current_step = IF n >= Len(w.steps) THEN n + 1 ELSE n,
                              !.state = IF n >= Len(w.steps) THEN "Completed" ELSE w.state]]

\* faulty variant: the state is not set when the last step is done
advance_neverCompleted(w) ==
    IF w.current_step >= Len(w.steps)
    THEN [ok |-> FALSE, w |-> w]
    ELSE [ok |-> TRUE, w |-> [w EXCEPT !.current_step = w.current_step + 1]]

advance(w) ==
    IF w.current_step >= Len(w.steps)
    THEN [ok |-> FALSE, w |-> w]
    ELSE LET n == w.current_step + 1
         IN  [ok |-> TRUE,
              w |-> [w EXCEPT !.current_step = n,
                              !.state = IF n >= Len(w.steps) THEN "Completed" ELSE w.state]]

\* faulty variant: a workflow that has been started counts as complete
is_complete_started(w) == w.state \in {"Completed", "Failed", "Running"}

\* faulty variant: a paused workflow counts as complete
is_complete_paused(w) == w.state \in {"Completed", "Failed", "Paused"}

is_complete(w) == w.state \in {"Completed", "Failed"}

MakeStep(step_type, provider, providers, min_providers) ==
    [step_type |-> step_type,
     state |-> "Pending",
     config |-> [type |-> step_type, provider |-> provider, providers |-> providers,
                 min_providers |-> min_providers],
     result |-> None]

WorkflowStep_prompt == MakeStep("Prompt", None, <<>>, 0)

WorkflowStep_parallel(providers) == MakeStep("ParallelPrompt", None, providers, 0)

DefaultMinProviders == 2

WorkflowStep_consensus == MakeStep("Consensus", None, <<>>, DefaultMinProviders)

WorkflowStep_review == MakeStep("HumanReview", None, <<>>, 0)

WorkflowStep_start(step) == [step EXCEPT !.state = "Running"]

\* faulty variant: the result is not stored
WorkflowStep_complete_noResult(step, result) == [step EXCEPT !.state = "Completed"]

WorkflowStep_complete(step, result) ==
    [step EXCEPT !.state = "Completed", !.result = Some(result)]

\* the steps a caller puts into a workflow: the four constructors, a Prompt
\* step with its provider set, and the two reserved variants
StepMenu ==
    { WorkflowStep_prompt,
      MakeStep("Prompt", Some("Grok"), <<>>, 0),
      WorkflowStep_parallel(<<"claude", "nobody", "Gemini">>),
      WorkflowStep_consensus,
      WorkflowStep_review,
      MakeStep("Conditional", None, <<>>, 0),
      MakeStep("Tool", None, <<>>, 0) }

RECURSIVE StepSeqs(_)
StepSeqs(n) ==
    IF n = 0 THEN {<<>>}
    ELSE LET shorter == StepSeqs(n - 1)
         IN  shorter \cup {Append(q, s) : q \in {x \in shorter : Len(x) = n - 1}, s \in StepMenu}

\* Workflow::new followed by add_step for each step
BuildWorkflow(steps) == [Workflow_new EXCEPT !.steps = steps]

(***************************************************************************)
(* The provider adapter (WebPuppet, external).  One call of an operation   *)
(* gets puppet_ok (does get_puppet build a session) and, per provider, an  *)
(* outcome: the response text length, or which call fails.                 *)
(***************************************************************************)
TextLens == {1, 2}

Outcomes ==
    {[kind |-> "ok", len |-> l] : l \in TextLens}
        \cup {[kind |-> "auth_err", len |-> 0], [kind |-> "prompt_err", len |-> 0]}

\* the outcomes met while a workflow step runs: the length of a text plays no
\* part in what a step does with it, so one length stands for all
StepOutcomes == {o \in Outcomes : o.len <= 1}

Response(provider, outcome) ==
    [provider |-> provider, text |-> [src |-> provider, len |-> outcome.len]]

(***************************************************************************)
(* AgentOrchestrator.  Each operation gives [router, res]: the router it   *)
(* leaves and Ok(value) or Err(kind).                                      *)
(***************************************************************************)
prompt_provider(r, provider, puppet_ok, outcome, latency, t) ==
    IF ~puppet_ok THEN [router |-> r, res |-> Err("Provider")]
    ELSE IF outcome.kind = "auth_err" THEN [router |-> r, res |-> Err("Provider")]
    ELSE IF outcome.kind = "ok"
    THEN [router |-> record_success(r, provider, latency),
          res |-> Ok(Response(provider, outcome))]
    ELSE [router |-> record_failure(r, provider, t), res |-> Err("Provider")]

\* outcomes is a function on the providers the call may reach
prompt(r, puppet_ok, outcomes, latency, t) ==
    LET sel == select_best(r, "General", t)
    IN  IF ~sel.ok THEN [router |-> r, res |-> Err("NoProviders")]
        ELSE prompt_provider(r, sel.val[1], puppet_ok, outcomes[sel.val[1]], latency, t)

\* faulty variant: the first failure ends the batch
RECURSIVE parallel_prompt_loop_abort(_, _, _)
parallel_prompt_loop_abort(providers, outcomes, results) ==
    IF providers = <<>> THEN results
    ELSE LET provider == Head(providers)
             o == outcomes[provider]
             item == IF o.kind = "ok"
                     THEN [provider |-> provider, ok |-> TRUE, resp |-> Response(provider, o)]
                     ELSE [provider |-> provider, ok |-> FALSE, resp |-> Response(provider, o)]
         IN  IF o.kind = "ok"
             THEN parallel_prompt_loop_abort(Tail(providers), outcomes, Append(results, item))
             ELSE Append(results, item)

RECURSIVE parallel_prompt_loop(_, _, _)
parallel_prompt_loop(providers, outcomes, results) ==
    IF providers = <<>> THEN results
    ELSE LET provider == Head(providers)
             o == outcomes[provider]
             item == IF o.kind = "ok"
                     THEN [provider |-> provider, ok |-> TRUE, resp |-> Response(provider, o)]
                     ELSE [provider |-> provider, ok |-> FALSE, resp |-> Response(provider, o)]
         IN  parallel_prompt_loop(Tail(providers), outcomes, Append(results, item))

\* faulty variant: a batch in which no provider answered is an error
parallel_prompt_needsOne(r, providers, puppet_ok, outcomes) ==
    LET results == parallel_prompt_loop(providers, outcomes, <<>>)
    IN  IF ~puppet_ok THEN [router |-> r, res |-> Err("Provider")]
        ELSE IF \A i \in 1..Len(results) : ~results[i].ok
        THEN [router |-> r, res |-> Err("NoProviders")]
        ELSE [router |-> r, res |-> Ok(results)]

parallel_prompt(r, providers, puppet_ok, outcomes) ==
    IF ~puppet_ok THEN [router |-> r, res |-> Err("Provider")]
    ELSE [router |-> r, res |-> Ok(parallel_prompt_loop(providers, outcomes, <<>>))]

\* Iterator::max_by_key: of several maximal elements the last one
RECURSIVE max_by_key_len(_, _)
max_by_key_len(responses, best) ==
    IF responses = <<>> THEN best
    ELSE LET x == Head(responses)
         IN  IF best = None \/ x.resp.text.len >= best[1].resp.text.len
             THEN max_by_key_len(Tail(responses), Some(x))
             ELSE max_by_key_len(Tail(responses), best)

EmptyText == [src |-> "none", len |-> 0]

find_consensus(responses) ==
    LET best == max_by_key_len(responses, None)
    IN  [consensus_text |-> IF best = None THEN EmptyText ELSE best[1].resp.text,
         responses |-> [i \in 1..Len(responses) |->
                          [provider |-> responses[i].provider,
                           text |-> responses[i].resp.text,
                           selected |-> IF best = None THEN FALSE
                                        ELSE best[1].provider = responses[i].provider]]]

Max(a, b) == IF a >= b THEN a ELSE b

ConsensusFloor == 3

\* the providers consensus_prompt queries, or <<>> when selection fails
ConsensusProviders(r, min_providers, t) ==
    select_multiple(r, Max(min_providers, ConsensusFloor), "General", t).val

\* faulty variant: the number of successful responses is not compared with
\* min_providers
consensus_prompt_unchecked(r, min_providers, puppet_ok, outcomes, t) ==
    LET sel == select_multiple(r, Max(min_providers, ConsensusFloor), "General", t)
    IN  IF ~sel.ok THEN [router |-> r, res |-> Err("NoProviders")]
        ELSE LET par == parallel_prompt(r, sel.val, puppet_ok, outcomes)
             IN  IF ~par.res.ok THEN [router |-> par.router, res |-> par.res]
                 ELSE LET responses == SelectSeq(par.res.val, LAMBDA x : x.ok)
                      IN  [router |-> par.router, res |-> Ok(find_consensus(responses))]

consensus_prompt(r, min_providers, puppet_ok, outcomes, t) ==
    LET sel == select_multiple(r, Max(min_providers, ConsensusFloor), "General", t)
    IN  IF ~sel.ok THEN [router |-> r, res |-> Err("NoProviders")]
        ELSE LET par == parallel_prompt(r, sel.val, puppet_ok, outcomes)
             IN  IF ~par.res.ok THEN [router |-> par.router, res |-> par.res]
                 ELSE LET responses == SelectSeq(par.res.val, LAMBDA x : x.ok)
                      IN  IF Len(responses) < min_providers
                          THEN [router |-> par.router, res |-> Err("NoProviders")]
                          ELSE [router |-> par.router, res |-> Ok(find_consensus(responses))]

\* the provider mapping written out in execute_workflow_step
StepProvider(s) ==
    LET l == ToLowercase(s)
    IN  CASE l = "claude" -> Some("Claude")
          [] l = "grok" -> Some("Grok")
          [] l = "gemini" -> Some("Gemini")
          [] l = "chatgpt" -> Some("ChatGpt")
          [] l = "perplexity" -> Some("Perplexity")
          [] l = "notebooklm" -> Some("NotebookLm")
          [] OTHER -> None

RECURSIVE FilterMapProviders(_)
FilterMapProviders(names) ==
    IF names = <<>> THEN <<>>
    ELSE LET p == StepProvider(Head(names))
         IN  (IF p = None THEN <<>> ELSE <<p[1]>>) \o FilterMapProviders(Tail(names))

\* faulty variant: the step is changed in a copy and the stored one is not
SetCurrent_lost(w, step) == w

SetCurrent(w, step) == [w EXCEPT !.steps[w.current_step + 1] = step]

StepResult(output, provider, responses) ==
    [output |-> output, provider |-> provider, responses |-> responses]

\* execute_workflow_step on a stored workflow w whose current step exists:
\* [router, w, res]
execute_step(r, w, puppet_ok, outcomes, latency, t) ==
    LET step_config == current(w)[1].config
        started == [SetCurrent(w, WorkflowStep_start(current(w)[1])) EXCEPT !.state = "Running"]
        Finish(rr, result) ==
            LET completed == SetCurrent(started, WorkflowStep_complete(current(started)[1], result))
                adv == advance(completed)
            IN  IF adv.ok THEN [router |-> rr, w |-> adv.w, res |-> Ok(result)]
                ELSE [router |-> rr, w |-> completed,
                      res |-> Err("InvalidState(workflow already complete)")]
        Fail(rr, e) == [router |-> rr, w |-> started, res |-> Err(e)]
    IN  CASE step_config.type = "Prompt" ->
                LET provider == IF step_config.provider = None THEN None
                                ELSE StepProvider(step_config.provider[1])
                    call == IF provider # None
                            THEN prompt_provider(r, provider[1], puppet_ok,
                                                 outcomes[provider[1]], latency, t)
                            ELSE prompt(r, puppet_ok, outcomes, latency, t)
                IN  IF ~call.res.ok THEN Fail(call.router, call.res.err)
                    ELSE Finish(call.router,
                                StepResult(<<call.res.val.text>>,
                                           Some(ProviderToString(call.res.val.provider)),
                                           None))
          [] step_config.type = "ParallelPrompt" ->
                LET providers == FilterMapProviders(step_config.providers)
                    call == parallel_prompt(r, providers, puppet_ok, outcomes)
                IN  IF ~call.res.ok THEN Fail(call.router, call.res.err)
                    ELSE LET oks == SelectSeq(call.res.val, LAMBDA x : x.ok)
                             responses == [i \in 1..Len(oks) |->
                                              [provider |-> ProviderToString(oks[i].provider),
                                               text |-> oks[i].resp.text,
                                               selected |-> FALSE]]
                         IN  Finish(call.router,
                                    StepResult([i \in 1..Len(responses) |-> responses[i].text],
                                               None, Some(responses)))
          [] step_config.type = "Consensus" ->
                LET call == consensus_prompt(r, step_config.min_providers, puppet_ok, outcomes, t)
                IN  IF ~call.res.ok THEN Fail(call.router, call.res.err)
                    ELSE Finish(call.router,
                                StepResult(<<call.res.val.consensus_text>>, None,
                                           Some(call.res.val.responses)))
          [] step_config.type = "HumanReview" ->
                [router |-> r,
                 w |-> [SetCurrent(started, [current(started)[1] EXCEPT !.state = "WaitingForHuman"])
                          EXCEPT !.state = "Paused"],
                 res |-> Err("Workflow(waiting for human review)")]
          [] OTHER ->
                [router |-> r, w |-> started, res |-> Err("Workflow(unsupported step type)")]

(***************************************************************************)
(* State                                                                   *)
(***************************************************************************)
router == [preferences |-> preferences, health |-> health, stats |-> stats]

EmptyMap == [x \in {} |-> 0]

\* the value returned by the most recent operation, with its arguments
Ret(op, task, count, id, res) ==
    [op |-> op, task |-> task, count |-> count, id |-> id,
     ok |-> res.ok, val |-> res.val, err |-> res.err]

Unit == Ok(<<>>)

\* the callers that use one orchestrator at the same time
Tasks == {"t1", "t2"}

\* a caller with no call in flight
IdleTask ==
    [op |-> "none", kind |-> "none", pc |-> "idle", id |-> "none", provider |-> None,
     providers |-> <<>>, results |-> <<>>, min_providers |-> 0,
     result |-> None, start |-> 0, snap |-> None]

\* an RwLock nobody holds
FreeLock == [writer |-> "none", readers |-> {}]

\* no call has been made yet
\* run_stdio is not running
NoStdio == [input |-> <<>>, next |-> 1, pc |-> "off", line |-> <<>>, response |-> <<>>,
            output |-> <<>>]

InitCalls ==
    /\ tasks = [t \in Tasks |-> IdleTask]
    /\ routerLock = FreeLock
    /\ storeLock = FreeLock
    /\ sessions = [t \in Tasks |-> "none"]
    /\ log = <<>>
    /\ calls = 0
    /\ stdio = NoStdio

Init ==
    /\ preferences = ProviderPreferences_default
    /\ health = EmptyMap
    /\ stats = EmptyMap
    /\ now = 0
    /\ workflows = EmptyMap
    /\ ret = Ret("new", "General", 0, "none", Unit)
    /\ failRun = [p \in Providers |-> 0]
    /\ events = 0
    /\ InitCalls

SetRouter(r) ==
    /\ health' = r.health
    /\ stats' = r.stats
    /\ UNCHANGED preferences

(***************************************************************************)
(* Router operations                                                       *)
(***************************************************************************)
RecordSuccess ==
    \E provider \in RecProviders, latency \in Latencies :
        /\ events < MaxRequests
        /\ SetRouter(record_success(router, provider, latency))
        /\ failRun' = [failRun EXCEPT ![provider] = 0]
        /\ events' = events + 1
        /\ ret' = Ret("record_success", "General", 0, "none", Unit)
        /\ UNCHANGED <<now, workflows, callVars>>

RecordFailure ==
    \E provider \in RecProviders :
        /\ events < MaxRequests
        /\ SetRouter(record_failure(router, provider, now))
        /\ failRun' = [failRun EXCEPT ![provider] = @ + 1]
        /\ events' = events + 1
        /\ ret' = Ret("record_failure", "General", 0, "none", Unit)
        /\ UNCHANGED <<now, workflows, callVars>>

\* time passes
Tick ==
    /\ now + TickStep <= MaxNow
    /\ now' = now + TickStep
    /\ UNCHANGED <<callVars, routerVars, workflows, ret, failRun, events>>

SelectBest ==
    \E task_type \in TaskTypes :
      \E res \in {select_best(router, task_type, now)} :
        /\ ret' = Ret("select_best", task_type, 0, "none", res)
        /\ UNCHANGED <<callVars, routerVars, now, workflows, failRun, events>>

SelectMultiple ==
    \E task_type \in TaskTypes, count \in Counts :
      \E res \in {select_multiple(router, count, task_type, now)} :
        /\ ret' = Ret("select_multiple", task_type, count, "none", res)
        /\ UNCHANGED <<callVars, routerVars, now, workflows, failRun, events>>

AvailableProviders ==
    /\ ret' = Ret("available_providers", "General", 0, "none",
                  Ok(available_providers(router, now)))
    /\ UNCHANGED <<callVars, routerVars, now, workflows, failRun, events>>

(***************************************************************************)
(* Orchestrator operations on the workflow store                           *)
(***************************************************************************)
\* start_workflow: the workflow comes from Workflow::new, whose id is a fresh
\* UUID, so the id is not in the store yet
StartWorkflow ==
    \E id \in WorkflowIds, steps \in StepSeqs(MaxSteps) :
        /\ id \notin DOMAIN workflows
        /\ workflows' = Put(workflows, id, BuildWorkflow(steps))
        /\ ret' = Ret("start_workflow", "General", 0, id, Ok(<<id>>))
        /\ UNCHANGED <<callVars, routerVars, now, failRun, events>>

\* the providers whose adapter outcome the current step of w can depend on
ReachedProviders(r, w, t) ==
    LET c == current(w)[1].config
    IN  CASE c.type = "Prompt" /\ c.provider # None /\ StepProvider(c.provider[1]) # None ->
                {StepProvider(c.provider[1])[1]}
          [] c.type = "Prompt" ->
                LET sel == select_best(r, "General", t)
                IN  IF sel.ok THEN {sel.val[1]} ELSE {}
          [] c.type = "ParallelPrompt" ->
                LET ps == FilterMapProviders(c.providers)
                IN  {ps[i] : i \in 1..Len(ps)}
          [] c.type = "Consensus" ->
                LET ps == ConsensusProviders(r, c.min_providers, t)
                IN  {ps[i] : i \in 1..Len(ps)}
          [] OTHER -> {}

\* faulty variant: a Tool step is run like a Consensus step
UsesAdapter_tool(w) ==
    current(w)[1].config.type \in {"Prompt", "ParallelPrompt", "Consensus", "Tool"}

UsesAdapter(w) == current(w)[1].config.type \in {"Prompt", "ParallelPrompt", "Consensus"}

\* the failure run the router update of a step leaves for each provider
FailRunAfter(r, rr) ==
    [p \in Providers |->
        IF p \in DOMAIN rr.stats /\ (p \notin DOMAIN r.stats \/ rr.stats[p] # r.stats[p])
        THEN IF rr.stats[p].failed_requests
                  = EntryOrDefault(r.stats, p, ProviderStats_default).failed_requests
             THEN 0
             ELSE failRun[p] + 1
        ELSE failRun[p]]

ExecuteWorkflowStep ==
    \E id \in WorkflowIds :
        IF id \notin DOMAIN workflows
        THEN /\ ret' = Ret("execute_workflow_step", "General", 0, id,
                           Err("Workflow(workflow not found)"))
             /\ UNCHANGED <<callVars, routerVars, now, workflows, failRun, events>>
        ELSE IF is_complete(workflows[id])
        THEN /\ ret' = Ret("execute_workflow_step", "General", 0, id,
                           Err("InvalidState(workflow already complete)"))
             /\ UNCHANGED <<callVars, routerVars, now, workflows, failRun, events>>
        ELSE IF current(workflows[id]) = None
        THEN /\ ret' = Ret("execute_workflow_step", "General", 0, id,
                           Err("InvalidState(no current step)"))
             /\ UNCHANGED <<callVars, routerVars, now, workflows, failRun, events>>
        ELSE \E puppet_ok \in (IF UsesAdapter(workflows[id]) THEN BOOLEAN ELSE {TRUE}),
                latency \in Latencies,
                outcomes \in [ReachedProviders(router, workflows[id], now) -> StepOutcomes] :
                \E out \in {execute_step(router, workflows[id], puppet_ok, outcomes, latency, now)} :
                    /\ (out.router # router) => events < MaxRequests
                    /\ SetRouter(out.router)
                    /\ workflows' = [workflows EXCEPT ![id] = out.w]
                    /\ failRun' = FailRunAfter(router, out.router)
                    /\ events' = IF out.router # router THEN events + 1 ELSE events
                    /\ ret' = Ret("execute_workflow_step", "General", 0, id,
                                  IF out.res.ok THEN Ok(<<out.res.val>>) ELSE out.res)
                    /\ UNCHANGED <<now, callVars>>

(***************************************************************************)
(* Orchestrator prompt operations                                          *)
(***************************************************************************)
\* the value returned by an orchestrator call, with the arguments of the call
\* and what the adapter did during it
RetCall(op, args, res) ==
    [op |-> op, args |-> args, ok |-> res.ok, val |-> res.val, err |-> res.err]

\* the provider lists handed to parallel_prompt
ParallelInputs ==
    { <<"Claude", "Gemini", "Grok">>, <<"Grok", "Claude">>, <<>> }

\* the min_providers values handed to consensus_prompt
MinProviders == 0..3

\* what the adapter does to each of the providers a call reaches; nothing is
\* reached when no session is built
AdapterRuns(providers, puppet_ok) ==
    IF puppet_ok
    THEN [{providers[i] : i \in 1..Len(providers)} -> Outcomes]
    ELSE {[p \in {providers[i] : i \in 1..Len(providers)} |-> [kind |-> "auth_err", len |-> 0]]}

\* a router update by one call, with the history variables that follow it
RouterStep(r) ==
    /\ (r # router) => events < MaxRequests
    /\ SetRouter(r)
    /\ failRun' = FailRunAfter(router, r)
    /\ events' = IF r # router THEN events + 1 ELSE events

PromptProvider ==
    \E provider \in RecProviders, puppet_ok \in BOOLEAN,
       outcome \in Outcomes, latency \in Latencies :
      \E out \in {prompt_provider(router, provider, puppet_ok, outcome, latency, now)} :
        /\ RouterStep(out.router)
        /\ ret' = RetCall("prompt_provider",
                          [provider |-> Some(provider), puppet_ok |-> puppet_ok,
                           outcome |-> outcome],
                          IF out.res.ok THEN Ok(<<out.res.val>>) ELSE out.res)
        /\ UNCHANGED <<now, workflows, callVars>>

Prompt ==
    \E puppet_ok \in BOOLEAN, outcome \in Outcomes, latency \in Latencies :
      \E sel \in {select_best(router, "General", now)} :
        \E out \in {prompt(router, puppet_ok, [p \in Providers |-> outcome], latency, now)} :
          /\ RouterStep(out.router)
          /\ ret' = RetCall("prompt",
                            [provider |-> IF sel.ok THEN Some(sel.val[1]) ELSE None,
                             puppet_ok |-> puppet_ok, outcome |-> outcome],
                            IF out.res.ok THEN Ok(<<out.res.val>>) ELSE out.res)
          /\ UNCHANGED <<now, workflows, callVars>>

ParallelPrompt ==
    \E providers \in ParallelInputs, puppet_ok \in BOOLEAN :
      \E outcomes \in AdapterRuns(providers, puppet_ok) :
        \E out \in {parallel_prompt(router, providers, puppet_ok, outcomes)} :
          /\ RouterStep(out.router)
          /\ ret' = RetCall("parallel_prompt",
                            [providers |-> providers, puppet_ok |-> puppet_ok,
                             outcomes |-> outcomes],
                            out.res)
          /\ UNCHANGED <<now, workflows, callVars>>

ConsensusPrompt ==
    \E min_providers \in MinProviders, puppet_ok \in BOOLEAN :
      \E providers \in {ConsensusProviders(router, min_providers, now)} :
        \E outcomes \in AdapterRuns(providers, puppet_ok) :
          \E out \in {consensus_prompt(router, min_providers, puppet_ok, outcomes, now)} :
            /\ RouterStep(out.router)
            /\ ret' = RetCall("consensus_prompt",
                              [min_providers |-> min_providers, providers |-> providers,
                               puppet_ok |-> puppet_ok, outcomes |-> outcomes],
                              IF out.res.ok THEN Ok(<<out.res.val>>) ELSE out.res)
            /\ UNCHANGED <<now, workflows, callVars>>

PromptNext ==
    \/ Tick
    \/ PromptProvider
    \/ Prompt

BatchNext ==
    \/ Tick
    \/ ParallelPrompt
    \/ ConsensusPrompt

WorkflowNext ==
    \/ StartWorkflow
    \/ ExecuteWorkflowStep

RouterNext ==
    \/ RecordSuccess
    \/ RecordFailure
    \/ Tick
    \/ AvailableProviders

SelectNext ==
    \/ RouterNext
    \/ SelectBest
    \/ SelectMultiple

\* a router built by ProviderRouter::with_preferences
InitPrefs ==
    /\ preferences \in PreferenceChoices
    /\ health = EmptyMap
    /\ stats = EmptyMap
    /\ now = 0
    /\ workflows = EmptyMap
    /\ ret = Ret("new", "General", 0, "none", Unit)
    /\ failRun = [p \in Providers |-> 0]
    /\ events = 0
    /\ InitCalls

RECURSIVE RecordFailures(_, _, _, _)
RecordFailures(r, ps, k, t) ==
    IF ps = <<>> THEN r
    ELSE IF k = 0 THEN RecordFailures(r, Tail(ps), FailureThreshold, t)
    ELSE RecordFailures(record_failure(r, Head(ps), t), ps, k - 1, t)

\* the router after FailureThreshold failures in a row, at time 0, of every
\* provider but the first
WornRouter ==
    RecordFailures([preferences |-> ProviderPreferences_default,
                    health |-> EmptyMap, stats |-> EmptyMap],
                   Tail(ProviderAll), FailureThreshold, 0)

\* a new router, or one that is down to its last healthy provider
InitSelect ==
    /\ preferences = ProviderPreferences_default
    /\ \/ /\ health = EmptyMap
          /\ stats = EmptyMap
          /\ failRun = [p \in Providers |-> 0]
       \/ /\ health = WornRouter.health
          /\ stats = WornRouter.stats
          /\ failRun = [p \in Providers |->
                           IF p = Head(ProviderAll) THEN 0 ELSE FailureThreshold]
    /\ now = 0
    /\ workflows = EmptyMap
    /\ ret = Ret("new", "General", 0, "none", Unit)
    /\ events = 0
    /\ InitCalls

\* the router under record_success, record_failure and the passing of time
SpecRouter == Init /\ [][RouterNext]_vars

\* the router with its selection queries
SpecSelect == InitSelect /\ [][SelectNext]_vars

\* the selection queries of a router built with preferences of the caller
SpecPrefs == InitPrefs /\ [][SelectNext]_vars

\* the workflow store under start_workflow and execute_workflow_step
SpecWorkflow == Init /\ [][WorkflowNext]_vars

\* the single-provider prompt calls of the orchestrator
SpecPrompt == Init /\ [][PromptNext]_vars

\* the batch calls of the orchestrator, on a new or a worn router
SpecBatch == InitSelect /\ [][BatchNext]_vars

Next ==
    \/ SelectNext
    \/ WorkflowNext
    \/ PromptNext
    \/ BatchNext

Spec == Init /\ [][Next]_vars

(***************************************************************************)
(* Properties                                                              *)
(***************************************************************************)
HealthOf(p) == EntryOrDefault(health, p, ProviderHealth_default)

StatsOf(p) == EntryOrDefault(stats, p, ProviderStats_default)

\* the health predicate as the specification words it, at time t
Unhealthy(p, t) ==
    /\ p \in DOMAIN health
    /\ health[p].consecutive_failures >= 3
    /\ health[p].last_failure # None
    /\ t - health[p].last_failure[1] < 300

Eligible(t) == {p \in Providers : ~Unhealthy(p, t)}

Range(q) == {q[i] : i \in 1..Len(q)}

\* position of a provider in the enumeration order
IndexOf(p) == CHOOSE i \in 1..Len(ProviderAll) : ProviderAll[i] = p

\* C1: after any sequence of record_success and record_failure calls every
\* provider's stats satisfy total_requests = successful_requests + failed_requests
C1_TotalIsSum ==
    \A p \in DOMAIN stats :
        stats[p].total_requests = stats[p].successful_requests + stats[p].failed_requests

C1_Witness ==
    \E p \in DOMAIN stats :
        /\ stats[p].successful_requests >= 1
        /\ stats[p].failed_requests >= 2

\* C2: every stored workflow has current_step <= len(steps), whatever
\* start_workflow and execute_workflow_step calls (successful or failing) came before
C2_CursorInRange ==
    \A id \in DOMAIN workflows :
        workflows[id].current_step <= Len(workflows[id].steps)

C2_Witness ==
    \E id \in DOMAIN workflows :
        /\ ret.op = "execute_workflow_step"
        /\ ret.ok
        /\ Len(workflows[id].steps) = MaxSteps
        /\ workflows[id].current_step = Len(workflows[id].steps)

\* C3: in every reachable state of every stored workflow, one with zero steps
\* included, state = Completed iff current_step = len(steps) and no step is Failed
C3_CompletedIffDone ==
    \A id \in DOMAIN workflows :
        LET w == workflows[id]
        IN  (w.state = "Completed")
                <=> (/\ w.current_step = Len(w.steps)
                     /\ \A i \in 1..Len(w.steps) : w.steps[i].state # "Failed")

\* C4: a provider is unhealthy (left out by is_healthy and so by
\* available_providers) iff its consecutive_failures >= 3 and its last failure
\* is less than 300 s old; a provider with no health record is healthy
C4_HealthPredicate ==
    \A p \in Providers :
        /\ is_healthy(router, p, now) <=> ~Unhealthy(p, now)
        /\ (p \in Range(available_providers(router, now))) <=> ~Unhealthy(p, now)
        /\ (p \notin DOMAIN health) => is_healthy(router, p, now)

C4_Witness ==
    /\ ret.op = "available_providers"
    /\ \E p \in Providers : Unhealthy(p, now) /\ p \notin Range(ret.val)
    /\ \E p \in Providers : p \notin DOMAIN health /\ p \in Range(ret.val)

\* a step in which provider p goes from healthy to unhealthy
BecomesUnhealthy(p) == is_healthy(router, p, now) /\ ~is_healthy(router, p, now)'

\* 300 s after its last failure a provider is healthy
RecoveredInTime ==
    \A p \in DOMAIN health :
        (health[p].last_failure # None /\ now - health[p].last_failure[1] >= 300)
            => is_healthy(router, p, now)

\* C5 as stated: a provider becomes unhealthy only on the 3rd consecutive
\* failure, and is healthy again at the latest 300 s after its last failure
C5_OnlyOnThirdFailure ==
    [][ /\ \A p \in Providers :
              BecomesUnhealthy(p) =>
                  /\ failRun'[p] = failRun[p] + 1
                  /\ failRun'[p] = 3
        /\ RecoveredInTime' ]_vars

\* C5 amended: a provider becomes unhealthy only in a step that records a
\* failure of it and brings its run of consecutive failures to 3 or more (the
\* 3rd failure, or a later one after the 300 s have run out), and is healthy
\* again at the latest 300 s after its last failure
C5_OnlyOnThirdOrLaterFailure ==
    [][ /\ \A p \in Providers :
              BecomesUnhealthy(p) =>
                  /\ failRun'[p] = failRun[p] + 1
                  /\ failRun'[p] >= 3
                  /\ health'[p].last_failure = Some(now')
        /\ RecoveredInTime' ]_vars

C5_Witness ==
    \E p \in DOMAIN health :
        /\ ret.op = "record_failure"
        /\ failRun[p] > 3
        /\ health[p].last_failure = Some(now)
        /\ now >= 300
        /\ ~is_healthy(router, p, now)

\* C6: consecutive_failures of a provider is the number of record_failure
\* calls since its most recent record_success (or since creation)
C6_ConsecutiveFailures ==
    \A p \in Providers : HealthOf(p).consecutive_failures = failRun[p]

C6_Witness ==
    \E p \in DOMAIN stats :
        /\ stats[p].successful_requests >= 1
        /\ stats[p].failed_requests >= 2
        /\ failRun[p] = 1
        /\ health[p].consecutive_failures = 1

\* C7: no provider listed in preferences.disabled is returned by
\* available_providers, select_best or select_multiple, and select_best
\* returns NoProviders when every provider is disabled
C7_DisabledNeverReturned ==
    /\ ret.op \in {"available_providers", "select_best", "select_multiple"} =>
          \A p \in Providers :
              is_disabled(preferences, p) => p \notin Range(ret.val)
    /\ (ret.op = "select_best" /\ \A p \in Providers : is_disabled(preferences, p)) =>
          (~ret.ok /\ ret.err = "NoProviders")

\* the score of the claim, in tenths
ClaimScore(p, task) ==
    LET bonus == CASE task = "Search" /\ p \in SearchProviders -> 50
                   [] task = "LargeContext" /\ p \in LargeContextProviders -> 30
                   [] task = "Code" /\ p \in {"Claude", "ChatGpt"} -> 20
                   [] task = "Creative" /\ p \in {"Gemini", "Claude"} -> 15
                   [] OTHER -> 0
        avg_ms == IF HealthOf(p).avg_latency = None THEN 0 ELSE HealthOf(p).avg_latency[1]
    IN  10 * (priority(preferences, p) + bonus
                - 10 * HealthOf(p).consecutive_failures
                - (avg_ms \div 1000))
            - (StatsOf(p).total_requests % 100)

\* C8: select_best(task) returns an eligible provider of maximal score, the
\* earliest in enumeration order among equal scores, and NoProviders exactly
\* when no provider is eligible
C8_SelectBestIsArgmax ==
    \A task \in TaskTypes :
        LET res == select_best(router, task, now)
        IN  IF Eligible(now) = {}
            THEN ~res.ok /\ res.err = "NoProviders"
            ELSE /\ res.ok
                 /\ Len(res.val) = 1
                 /\ res.val[1] \in Eligible(now)
                 /\ \A q \in Eligible(now) :
                       /\ ClaimScore(q, task) <= ClaimScore(res.val[1], task)
                       /\ ClaimScore(q, task) = ClaimScore(res.val[1], task)
                             => IndexOf(res.val[1]) <= IndexOf(q)

\* select_best has just returned one of two eligible providers of equal,
\* maximal score
C8_Witness ==
    /\ ret.op = "select_best"
    /\ ret.ok
    /\ ret = Ret("select_best", ret.task, 0, "none", select_best(router, ret.task, now))
    /\ \E q \in Eligible(now) \ {ret.val[1]} :
          ClaimScore(q, ret.task) = ClaimScore(ret.val[1], ret.task)

\* select_best has just returned NoProviders
C8_WitnessNone ==
    /\ ret.op = "select_best"
    /\ ~ret.ok
    /\ Eligible(now) = {}

\* C9: select_multiple(count, task) returns exactly count distinct eligible
\* providers, in non-increasing score order, the count highest-scored ones,
\* whenever at least count providers are eligible, and NoProviders otherwise
C9_SelectMultipleIsTopCount ==
    \A task \in TaskTypes, count \in Counts :
        LET res == select_multiple(router, count, task, now)
        IN  IF Cardinality(Eligible(now)) >= count
            THEN /\ res.ok
                 /\ Len(res.val) = count
                 /\ Cardinality(Range(res.val)) = count
                 /\ Range(res.val) \subseteq Eligible(now)
                 /\ \A i \in 1..(count - 1) :
                       ClaimScore(res.val[i], task) >= ClaimScore(res.val[i + 1], task)
                 /\ \A q \in Eligible(now) \ Range(res.val), x \in Range(res.val) :
                       ClaimScore(q, task) <= ClaimScore(x, task)
            ELSE ~res.ok /\ res.err = "NoProviders"

\* select_multiple has just returned some but not all of the eligible
\* providers, after outcomes were recorded
C9_Witness ==
    /\ ret.op = "select_multiple"
    /\ ret.ok
    /\ ret = Ret("select_multiple", ret.task, ret.count, "none",
                 select_multiple(router, ret.count, ret.task, now))
    /\ Cardinality(Eligible(now)) > ret.count
    /\ Cardinality(Eligible(now)) < Len(ProviderAll)
    /\ \E i \in 1..(ret.count - 1) : IndexOf(ret.val[i]) > IndexOf(ret.val[i + 1])

SameSelections(t1, t2) ==
    \A task \in TaskTypes :
        /\ select_best(router, task, t1) = select_best(router, task, t2)
        /\ \A count \in Counts :
              select_multiple(router, count, task, t1) = select_multiple(router, count, task, t2)

\* C10 as stated: select_best and select_multiple are functions of
\* (preferences, health, stats, task) alone: with these unchanged they return
\* the same results whenever they are queried, before and after time passes
C10_DeterministicWhenever ==
    [][ (now' # now /\ UNCHANGED routerVars) => SameSelections(now, now') ]_vars

\* C10 amended: with (preferences, health, stats) unchanged, select_best and
\* select_multiple return the same results at two query times whenever every
\* provider is on the same side of the health predicate at both times
C10_DeterministicGivenHealth ==
    [][ (/\ now' # now
         /\ UNCHANGED routerVars
         /\ \A p \in Providers : Unhealthy(p, now) <=> Unhealthy(p, now'))
            => SameSelections(now, now') ]_vars

\* a selection made while the clock runs on a provider's health window
C10_Witness ==
    /\ ret.op \in {"select_best", "select_multiple"}
    /\ \E p \in Providers :
          /\ Unhealthy(p, now)
          /\ now > health[p].last_failure[1]

\* a router on which nothing was recorded
Fresh == health = EmptyMap /\ stats = EmptyMap

\* the router is a new one on which three failures of p, and nothing else,
\* were recorded, the last of them less than 300 s ago
ThreeFailuresOn(p) ==
    /\ DOMAIN health = {p}
    /\ DOMAIN stats = {p}
    /\ stats[p].failed_requests = 3
    /\ stats[p].successful_requests = 0
    /\ health[p].consecutive_failures = 3
    /\ health[p].last_failure # None
    /\ now - health[p].last_failure[1] < 300

\* the provider select_best(Search) returns on a new router
FreshSearchChoice ==
    select_best([preferences |-> preferences, health |-> EmptyMap, stats |-> EmptyMap],
                "Search", 0)

\* C11: on a fresh router select_best(General) succeeds and select_best(Search)
\* returns a search-capable provider; after 3 failures recorded on that
\* provider within the health window select_best(Search) still succeeds and
\* returns a different provider
C11_HealthySelection ==
    /\ Fresh =>
          /\ select_best(router, "General", now).ok
          /\ select_best(router, "Search", now).ok
          /\ select_best(router, "Search", now).val[1] \in SearchProviders
    /\ (FreshSearchChoice.ok /\ ThreeFailuresOn(FreshSearchChoice.val[1])) =>
          /\ select_best(router, "Search", now).ok
          /\ select_best(router, "Search", now).val[1] # FreshSearchChoice.val[1]

\* select_best(Search) has just answered after the three failures
C11_Witness ==
    /\ ret.op = "select_best"
    /\ ret.task = "Search"
    /\ ret.ok
    /\ FreshSearchChoice.ok
    /\ ThreeFailuresOn(FreshSearchChoice.val[1])
    /\ ret.val[1] \in SearchProviders \ {FreshSearchChoice.val[1]}

\* C12: when the adapter session is acquired, parallel_prompt returns one
\* (provider, result) pair per input provider, in input order, and each pair
\* holds what the adapter did for that provider whatever failed before it
C12_OnePairPerProvider ==
    (ret.op = "parallel_prompt" /\ ret.args.puppet_ok) =>
        /\ ret.ok
        /\ Len(ret.val) = Len(ret.args.providers)
        /\ \A i \in 1..Len(ret.args.providers) :
              LET p == ret.args.providers[i]
              IN  /\ ret.val[i].provider = p
                  /\ ret.val[i].ok <=> ret.args.outcomes[p].kind = "ok"
                  /\ ret.val[i].resp = Response(p, ret.args.outcomes[p])

\* a batch in which an authentication failure and a delivery failure come
\* before a success
C12_Witness ==
    /\ ret.op = "parallel_prompt"
    /\ ret.args.puppet_ok
    /\ Len(ret.args.providers) = 3
    /\ ret.args.outcomes[ret.args.providers[1]].kind = "auth_err"
    /\ ret.args.outcomes[ret.args.providers[2]].kind = "prompt_err"
    /\ ret.val[3].ok

\* the stats of a provider after the step
StatsAfter(p) == EntryOrDefault(stats', p, ProviderStats_default)

\* C13: parallel_prompt updates the router per provider: after the call each
\* provider that succeeded has one more recorded success and each provider
\* that failed has one more recorded failure
C13_RouterUpdatedPerProvider ==
    [][ (ret'.op = "parallel_prompt" /\ now' = now /\ ret'.ok) =>
            \A i \in 1..Len(ret'.val) :
                LET p == ret'.val[i].provider
                IN  IF ret'.val[i].ok
                    THEN /\ StatsAfter(p).successful_requests = StatsOf(p).successful_requests + 1
                         /\ StatsAfter(p).failed_requests = StatsOf(p).failed_requests
                    ELSE /\ StatsAfter(p).failed_requests = StatsOf(p).failed_requests + 1
                         /\ StatsAfter(p).successful_requests = StatsOf(p).successful_requests
      ]_vars

\* C14: every prompt / prompt_provider call that reaches the adapter records
\* exactly one outcome for the chosen provider: one record_success when the
\* response is returned, one record_failure with a Provider error on any
\* adapter failure, an authentication failure included
C14_OneOutcomeRecorded ==
    [][ (/\ ret'.op \in {"prompt", "prompt_provider"}
         /\ now' = now
         /\ ret'.args.puppet_ok
         /\ ret'.args.provider # None) =>
            LET p == ret'.args.provider[1]
            IN  /\ \A q \in Providers \ {p} : StatsAfter(q) = StatsOf(q)
                /\ IF ret'.ok
                    THEN /\ StatsAfter(p).successful_requests = StatsOf(p).successful_requests + 1
                         /\ StatsAfter(p).failed_requests = StatsOf(p).failed_requests
                    ELSE /\ ret'.err = "Provider"
                         /\ StatsAfter(p).failed_requests = StatsOf(p).failed_requests + 1
                         /\ StatsAfter(p).successful_requests = StatsOf(p).successful_requests
      ]_vars

\* the queried providers of the last consensus_prompt call that answered
Succeeded ==
    {p \in Range(ret.args.providers) : ret.args.outcomes[p].kind = "ok"}

SelectedAt(c) == {i \in 1..Len(c.responses) : c.responses[i].selected}

\* C16: for every min_providers value, 0 and 1 included, whenever
\* consensus_prompt returns a ConsensusResult exactly one ProviderResponse has
\* selected = true, it belongs to a provider whose call succeeded, and
\* consensus_text is that response's text
C16_ExactlyOneSelected ==
    (ret.op = "consensus_prompt" /\ ret.ok) =>
        LET c == ret.val[1]
        IN  /\ Cardinality(SelectedAt(c)) = 1
            /\ \A i \in SelectedAt(c) :
                  /\ c.responses[i].provider \in Succeeded
                  /\ c.consensus_text = c.responses[i].text

\* C17: the consensus winner is the successful response with the greatest
\* text length, and of several with the greatest length the first in result
\* order
C17_LongestFirstWins ==
    (ret.op = "consensus_prompt" /\ ret.ok) =>
        LET c == ret.val[1]
        IN  \A i \in SelectedAt(c), j \in 1..Len(c.responses) :
                /\ c.responses[j].text.len <= c.responses[i].text.len
                /\ c.responses[j].text.len = c.responses[i].text.len => i <= j

\* a workflow of n >= 1 prompt steps
PromptOnly(w) ==
    /\ Len(w.steps) >= 1
    /\ \A i \in 1..Len(w.steps) : w.steps[i].config.type = "Prompt"

\* the adapter answering every provider
AllAnswer == [p \in Providers |-> [kind |-> "ok", len |-> 1]]

\* the adapter failing every provider
NoneAnswers == [p \in Providers |-> [kind |-> "auth_err", len |-> 0]]

\* C18: for a workflow of n >= 1 prompt steps whose adapter calls all succeed,
\* each execute_workflow_step call completes the current step and moves
\* current_step by exactly 1, the n-th leaves the workflow Completed, and
\* every later call returns InvalidState and leaves the workflow as it is
C18_PromptStepsAdvance ==
    [][ \A id \in DOMAIN workflows :
          LET w == workflows[id]
              after == workflows'[id]
          IN  (PromptOnly(w) /\ ret'.op = "execute_workflow_step" /\ ret'.id = id) =>
                IF w.state = "Completed"
                THEN /\ ~ret'.ok
                     /\ ret'.err = "InvalidState(workflow already complete)"
                     /\ after = w
                ELSE /\ \A latency \in Latencies :
                          execute_step(router, w, TRUE, AllAnswer, latency, now).res.ok
                     /\ ret'.ok =>
                          /\ after.current_step = w.current_step + 1
                          /\ after.steps[w.current_step + 1].state = "Completed"
                          /\ after.steps[w.current_step + 1].result # None
                          /\ IF after.current_step = Len(w.steps)
                             THEN after.state = "Completed"
                             ELSE after.state = "Running"
      ]_vars

\* a workflow of MaxSteps prompt steps was run to its end and then called
\* once more
C18_Witness ==
    \E id \in DOMAIN workflows :
        /\ PromptOnly(workflows[id])
        /\ Len(workflows[id].steps) = MaxSteps
        /\ workflows[id].state = "Completed"
        /\ \A i \in 1..MaxSteps : workflows[id].steps[i].state = "Completed"
        /\ ret.op = "execute_workflow_step"
        /\ ret.err = "InvalidState(workflow already complete)"

\* the current step of w is a HumanReview step that execute_workflow_step
\* will reach
AtReview(w) ==
    /\ ~is_complete(w)
    /\ current(w) # None
    /\ current(w)[1].config.type = "HumanReview"

\* C19: execute_workflow_step on a workflow whose current step is HumanReview
\* returns the Workflow("waiting for human review") error, leaves current_step
\* unchanged, sets that step to WaitingForHuman and the workflow to Paused,
\* and contacts neither the router nor the adapter
C19_ReviewPauses ==
    [][ \A id \in DOMAIN workflows :
          LET w == workflows[id]
              after == workflows'[id]
          IN  (AtReview(w) /\ ret'.op = "execute_workflow_step" /\ ret'.id = id) =>
                /\ ~ret'.ok
                /\ ret'.err = "Workflow(waiting for human review)"
                /\ after.current_step = w.current_step
                /\ after.steps[w.current_step + 1].state = "WaitingForHuman"
                /\ after.state = "Paused"
                /\ \A i \in 1..Len(w.steps) :
                      i # w.current_step + 1 => after.steps[i] = w.steps[i]
                /\ UNCHANGED routerVars
                /\ \A latency \in Latencies :
                      execute_step(router, w, TRUE, AllAnswer, latency, now)
                          = execute_step(router, w, FALSE, NoneAnswers, latency, now)
      ]_vars

\* a workflow paused at a review step that follows a completed step
C19_Witness ==
    \E id \in DOMAIN workflows :
        /\ ret.op = "execute_workflow_step"
        /\ ret.err = "Workflow(waiting for human review)"
        /\ workflows[id].current_step = 1
        /\ workflows[id].steps[1].state = "Completed"
        /\ workflows[id].steps[2].state = "WaitingForHuman"
        /\ workflows[id].state = "Paused"

\* the workflow waits at a HumanReview step
PausedAtReview(w) ==
    /\ w.state = "Paused"
    /\ current(w) # None
    /\ current(w)[1].state = "WaitingForHuman"

ReviewNeverPassed ==
    \A id \in DOMAIN workflows :
        \A i \in 1..Len(workflows[id].steps) :
            workflows[id].steps[i].config.type = "HumanReview" =>
                /\ workflows[id].steps[i].state # "Completed"
                /\ workflows[id].current_step < i

\* the call on id that has just returned failed with a provider or a
\* selection error
ProviderFailure(id) ==
    /\ ret'.op = "execute_workflow_step"
    /\ ret'.id = id
    /\ ~ret'.ok
    /\ ret'.err \in {"Provider", "NoProviders"}

\* C21: when execute_workflow_step fails because of a provider or selection
\* error (Provider or NoProviders), the error is returned and the state of the
\* current step becomes Failed
C21_FailedStepIsFailed ==
    [][ \A id \in DOMAIN workflows :
          ProviderFailure(id) =>
              /\ workflows'[id].current_step = workflows[id].current_step
              /\ workflows'[id].steps[workflows[id].current_step + 1].state = "Failed"
      ]_vars

\* C22: after an execute_workflow_step call fails on a step, current_step is
\* unchanged and no step result is stored, and a later execute_workflow_step
\* on the same id is accepted and attempts that same step again; after a
\* provider or selection failure the new attempt completes the step and
\* advances the workflow when the adapter answers
C22_FailedStepIsRetried ==
    [][ \A id \in DOMAIN workflows :
          LET w == workflows[id]
              after == workflows'[id]
          IN  (ret'.op = "execute_workflow_step" /\ ret'.id = id /\ ~ret'.ok) =>
                /\ after.current_step = w.current_step
                /\ \A i \in 1..Len(w.steps) : after.steps[i].result = w.steps[i].result
                /\ (~is_complete(w) /\ current(w) # None) =>
                      /\ ~is_complete(after)
                      /\ current(after) # None
                      /\ current(after)[1].config = current(w)[1].config
                      /\ current(after)[1].result = None
                /\ ProviderFailure(id) =>
                      \A latency \in Latencies :
                          LET again == execute_step(router', after, TRUE, AllAnswer,
                                                    latency, now')
                          IN  /\ again.res.ok
                              /\ again.w.current_step = w.current_step + 1
                              /\ again.w.steps[w.current_step + 1].state = "Completed"
      ]_vars

\* a delivery failed, the call was made again, and the workflow ran to its end
C22_Witness ==
    \E id \in DOMAIN workflows :
        /\ workflows[id].state = "Completed"
        /\ Len(workflows[id].steps) = MaxSteps
        /\ \E p \in Providers : StatsOf(p).failed_requests >= 1
        /\ ret.op = "execute_workflow_step"
        /\ ret.ok

(***************************************************************************)
(* The workflow store under every orchestrator operation that reaches it   *)
(***************************************************************************)
\* start_workflow with a workflow whose id is in the store: id is a public
\* field of Workflow and start_workflow inserts without looking
StartWorkflowSameId ==
    \E id \in WorkflowIds, steps \in StepSeqs(1) :
        /\ id \in DOMAIN workflows
        /\ workflows' = Put(workflows, id, BuildWorkflow(steps))
        /\ ret' = Ret("start_workflow", "General", 0, id, Ok(<<id>>))
        /\ UNCHANGED <<callVars, routerVars, now, failRun, events>>

GetWorkflow ==
    \E id \in WorkflowIds :
        /\ ret' = Ret("get_workflow", "General", 0, id,
                      Ok(IF id \in DOMAIN workflows THEN Some(workflows[id]) ELSE None))
        /\ UNCHANGED <<callVars, routerVars, now, workflows, failRun, events>>

Status ==
    /\ ret' = Ret("status", "General", 0, "none",
                  Ok([available_providers |-> available_providers(router, now),
                      active_workflows |-> Cardinality(DOMAIN workflows),
                      provider_stats |-> stats]))
    /\ UNCHANGED <<callVars, routerVars, now, workflows, failRun, events>>

StoreNext ==
    \/ StartWorkflow
    \/ StartWorkflowSameId
    \/ ExecuteWorkflowStep
    \/ GetWorkflow
    \/ Status

SpecStore == Init /\ [][StoreNext]_vars

\* C23: once the state of a stored workflow is Completed or Failed, no
\* orchestrator operation (execute_workflow_step, start_workflow,
\* get_workflow, status) changes its state, steps, step results or
\* current_step
C23_FinishedIsImmutable ==
    [][ \A id \in DOMAIN workflows :
          is_complete(workflows[id]) =>
              /\ id \in DOMAIN workflows'
              /\ workflows'[id] = workflows[id]
      ]_vars

\* the same, for the operations other than start_workflow
C23_FinishedUnlessStartedAgain ==
    [][ \A id \in DOMAIN workflows :
          (is_complete(workflows[id]) /\ ret'.op # "start_workflow") =>
              /\ id \in DOMAIN workflows'
              /\ workflows'[id] = workflows[id]
      ]_vars

(***************************************************************************)
(* The orchestrator operations await by await.  A call in flight stands at *)
(* the await it passes next (pc); the code from one await to the next is   *)
(* one step.  op is the operation the caller called, kind the prompt       *)
(* operation that is running: op itself, or the one execute_workflow_step  *)
(* calls for the current step.                                             *)
(*   store_write    workflows.write().await                                *)
(*   router_read    router.read().await                                    *)
(*   get_puppet     WebPuppet::builder()...build().await                   *)
(*   authenticate   puppet.authenticate(provider).await                    *)
(*   prompt         puppet.prompt(provider, request).await                 *)
(*   router_write   router.write().await                                   *)
(*   record_stats   inside record_success / record_failure (not an await)  *)
(*   close          puppet.close().await                                   *)
(*   batch_auth, batch_prompt, batch_close   the same in parallel_prompt   *)
(* get_puppet also takes puppet.read(); that lock is never written and is  *)
(* left out.                                                               *)
(***************************************************************************)
\* calls started in one run
MaxCalls == 2

\* the calls a caller makes
CallMenu ==
    {[op |-> "prompt", id |-> "none", provider |-> None, providers |-> <<>>],
     [op |-> "prompt_provider", id |-> "none", provider |-> Some("Claude"), providers |-> <<>>],
     [op |-> "parallel_prompt", id |-> "none", provider |-> None, providers |-> <<"Grok", "Claude">>],
     [op |-> "execute_workflow_step", id |-> "w1", provider |-> None, providers |-> <<>>]}

\* the workflows in the store when the calls begin
StoredWorkflows ==
    {BuildWorkflow(<<s>>) : s \in StepMenu}
        \cup {BuildWorkflow(<<WorkflowStep_prompt, WorkflowStep_prompt>>)}

\* an orchestrator in which start_workflow has stored one workflow
InitStore ==
    /\ preferences = ProviderPreferences_default
    /\ health = EmptyMap
    /\ stats = EmptyMap
    /\ now = 0
    /\ workflows \in {[id \in WorkflowIds |-> w] : w \in StoredWorkflows}
    /\ ret = Ret("new", "General", 0, "none", Unit)
    /\ failRun = [p \in Providers |-> 0]
    /\ events = 0
    /\ InitCalls

\* faulty variant: a reader does not wait for the writer
CanRead_always(lock) == TRUE

\* RwLock::read and RwLock::write are granted
CanRead(lock) == lock.writer = "none"

\* faulty variant: a writer does not wait
CanWrite_always(lock) == TRUE

CanWrite(lock) == lock.writer = "none" /\ lock.readers = {}

\* step.complete(result) and workflow.advance()?
StepDone(w, result) ==
    LET completed == SetCurrent(w, WorkflowStep_complete(current(w)[1], result))
        adv == advance(completed)
    IN  IF adv.ok THEN [w |-> adv.w, res |-> Ok(<<result>>)]
        ELSE [w |-> completed, res |-> Err("InvalidState(workflow already complete)")]

\* the StepResult built from the value of the prompt operation of a step
StepValue(kind, val) ==
    CASE kind \in {"prompt", "prompt_provider"} ->
             StepResult(<<val.text>>, Some(ProviderToString(val.provider)), None)
      [] kind = "parallel_prompt" ->
             LET oks == SelectSeq(val, LAMBDA x : x.ok)
                 responses == [i \in 1..Len(oks) |->
                                  [provider |-> ProviderToString(oks[i].provider),
                                   text |-> oks[i].resp.text,
                                   selected |-> FALSE]]
             IN  StepResult([i \in 1..Len(responses) |-> responses[i].text],
                            None, Some(responses))
      [] kind = "consensus_prompt" ->
             StepResult(<<val.consensus_text>>, None, Some(val.responses))

\* the end of a call whose prompt operation gave inner: the caller gets the
\* result, and execute_workflow_step completes the step or leaves it
Return(t, inner) ==
    LET T == tasks[t]
    IN  /\ tasks' = [tasks EXCEPT ![t] = IdleTask]
        /\ IF T.op = "execute_workflow_step"
           THEN /\ storeLock' = FreeLock
                /\ IF inner.ok
                   THEN \E d \in {StepDone(workflows[T.id], StepValue(T.kind, inner.val))} :
                          /\ workflows' = [workflows EXCEPT ![T.id] = d.w]
                          /\ ret' = Ret(T.op, "General", 0, T.id, d.res)
                   ELSE /\ UNCHANGED workflows
                        /\ ret' = Ret(T.op, "General", 0, T.id, inner)
           ELSE /\ UNCHANGED <<storeLock, workflows>>
                /\ ret' = Ret(T.op, "General", 0, T.id,
                              IF inner.ok /\ T.kind # "parallel_prompt"
                              THEN Ok(<<inner.val>>) ELSE inner)

\* the call moves on to its next await
Goto(t, T) ==
    /\ tasks' = [tasks EXCEPT ![t] = T]
    /\ UNCHANGED <<storeLock, workflows, ret>>

Call(t) ==
    /\ tasks[t].pc = "idle"
    /\ calls < MaxCalls
    /\ \E c \in CallMenu :
         tasks' = [tasks EXCEPT ![t] =
                     [IdleTask EXCEPT
                        !.op = c.op, !.kind = c.op, !.id = c.id,
                        !.provider = c.provider, !.providers = c.providers,
                        !.start = now,
                        !.snap = IF c.op = "execute_workflow_step"
                                 THEN Some([router |-> router, workflows |-> workflows])
                                 ELSE None,
                        !.pc = CASE c.op = "prompt" -> "router_read"
                                 [] c.op = "execute_workflow_step" -> "store_write"
                                 [] OTHER -> "get_puppet"]]
    /\ sessions' = [sessions EXCEPT ![t] = "none"]
    /\ calls' = calls + 1
    /\ UNCHANGED <<routerVars, now, workflows, ret, failRun, events,
                   routerLock, storeLock, log, stdio>>

\* execute_workflow_step from workflows.write() to the first await of the
\* step's prompt operation
StoreWrite(t) ==
    LET T == tasks[t]
    IN  /\ T.pc = "store_write"
        /\ CanWrite(storeLock)
        /\ UNCHANGED <<routerVars, now, failRun, events, routerLock, sessions, log, calls, stdio>>
        /\ IF T.id \notin DOMAIN workflows
           THEN Return(t, Err("Workflow(workflow not found)"))
           ELSE IF is_complete(workflows[T.id])
           THEN Return(t, Err("InvalidState(workflow already complete)"))
           ELSE IF current(workflows[T.id]) = None
           THEN Return(t, Err("InvalidState(no current step)"))
           ELSE LET w == workflows[T.id]
                    c == current(w)[1].config
                    started == [SetCurrent(w, WorkflowStep_start(current(w)[1]))
                                  EXCEPT !.state = "Running"]
                    provider == IF c.provider = None THEN None
                                ELSE StepProvider(c.provider[1])
                IN  IF UsesAdapter(w)
                    THEN /\ workflows' = [workflows EXCEPT ![T.id] = started]
                         /\ storeLock' = [storeLock EXCEPT !.writer = t]
                         /\ UNCHANGED ret
                         /\ tasks' = [tasks EXCEPT ![t] =
                              CASE c.type = "Prompt" /\ provider # None ->
                                     [T EXCEPT !.kind = "prompt_provider", !.provider = provider,
                                               !.start = now, !.pc = "get_puppet"]
                                [] c.type = "Prompt" ->
                                     [T EXCEPT !.kind = "prompt", !.pc = "router_read"]
                                [] c.type = "ParallelPrompt" ->
                                     [T EXCEPT !.kind = "parallel_prompt",
                                               !.providers = FilterMapProviders(c.providers),
                                               !.pc = "get_puppet"]
                                [] OTHER ->
                                     [T EXCEPT !.kind = "consensus_prompt",
                                               !.min_providers = c.min_providers,
                                               !.pc = "router_read"]]
                    ELSE /\ tasks' = [tasks EXCEPT ![t] = IdleTask]
                         /\ UNCHANGED storeLock
                         /\ IF c.type = "HumanReview"
                            THEN /\ workflows' = [workflows EXCEPT ![T.id] =
                                      [SetCurrent(started, [current(started)[1] EXCEPT
                                                                !.state = "WaitingForHuman"])
                                         EXCEPT !.state = "Paused"]]
                                 /\ ret' = Ret(T.op, "General", 0, T.id,
                                               Err("Workflow(waiting for human review)"))
                            ELSE /\ workflows' = [workflows EXCEPT ![T.id] = started]
                                 /\ ret' = Ret(T.op, "General", 0, T.id,
                                               Err("Workflow(unsupported step type)"))

\* prompt and consensus_prompt: router.read(), the selection, drop(router)
RouterRead(t) ==
    LET T == tasks[t]
    IN  /\ T.pc = "router_read"
        /\ CanRead(routerLock)
        /\ UNCHANGED <<routerVars, now, failRun, events, routerLock, sessions, log, calls, stdio>>
        /\ IF T.kind = "prompt"
           THEN \E sel \in {select_best(router, "General", now)} :
                  IF sel.ok
                  THEN Goto(t, [T EXCEPT !.provider = sel.val, !.start = now,
                                         !.pc = "get_puppet"])
                  ELSE Return(t, Err("NoProviders"))
           ELSE \E sel \in {select_multiple(router, Max(T.min_providers, ConsensusFloor),
                                            "General", now)} :
                  IF sel.ok
                  THEN Goto(t, [T EXCEPT !.providers = sel.val, !.pc = "get_puppet"])
                  ELSE Return(t, Err("NoProviders"))

\* get_puppet: the adapter builds a session or fails
GetPuppet(t) ==
    LET T == tasks[t]
    IN  /\ T.pc = "get_puppet"
        /\ UNCHANGED <<routerVars, now, failRun, events, routerLock, log, calls, stdio>>
        /\ \E puppet_ok \in BOOLEAN :
             IF puppet_ok
             THEN /\ sessions' = [sessions EXCEPT ![t] = "open"]
                  /\ Goto(t, [T EXCEPT !.pc =
                                IF T.kind \in {"prompt", "prompt_provider"} THEN "authenticate"
                                ELSE IF T.providers = <<>> THEN "batch_close"
                                ELSE "batch_auth"])
             ELSE /\ UNCHANGED sessions
                  /\ Return(t, Err("Provider"))

\* prompt_provider: puppet.authenticate(provider).await?
Authenticate(t) ==
    LET T == tasks[t]
    IN  /\ T.pc = "authenticate"
        /\ UNCHANGED <<routerVars, now, failRun, events, routerLock, sessions, log, calls, stdio>>
        /\ \E ok \in BOOLEAN :
             IF ok THEN Goto(t, [T EXCEPT !.pc = "prompt"])
             ELSE Return(t, Err("Provider"))

\* prompt_provider: puppet.prompt(provider, request).await
AdapterPrompt(t) ==
    LET T == tasks[t]
    IN  /\ T.pc = "prompt"
        /\ UNCHANGED <<routerVars, now, failRun, events, routerLock, sessions, log, calls, stdio>>
        /\ \E o \in {x \in StepOutcomes : x.kind # "auth_err"} :
             Goto(t, [T EXCEPT !.result = Some(o), !.pc = "router_write"])

\* the router after the outcome of the call is recorded
Recorded(T, r, t0) ==
    IF T.result[1].kind = "ok"
    THEN record_success(r, T.provider[1], (t0 - T.start) * 1000)
    ELSE record_failure(r, T.provider[1], t0)

\* prompt_provider: router.write(), then the first half of record_success /
\* record_failure, which changes health
RouterWrite(t) ==
    LET T == tasks[t]
    IN  /\ T.pc = "router_write"
        /\ CanWrite(routerLock)
        /\ routerLock' = [routerLock EXCEPT !.writer = t]
        /\ health' = Recorded(T, router, now).health
        /\ log' = Append(log, [provider |-> T.provider[1], ok |-> T.result[1].kind = "ok",
                               latency |-> (now - T.start) * 1000, at |-> now])
        /\ Goto(t, [T EXCEPT !.pc = "record_stats"])
        /\ UNCHANGED <<preferences, stats, now, failRun, events, sessions, calls, stdio>>

\* the second half of record_success / record_failure, which changes stats
RecordStats(t) ==
    LET T == tasks[t]
    IN  /\ T.pc = "record_stats"
        /\ stats' = Recorded(T, router, now).stats
        /\ failRun' = [failRun EXCEPT ![T.provider[1]] =
                          IF T.result[1].kind = "ok" THEN 0 ELSE @ + 1]
        /\ events' = events + 1
        /\ Goto(t, [T EXCEPT !.pc = "close"])
        /\ UNCHANGED <<preferences, health, now, routerLock, sessions, log, calls, stdio>>

\* prompt_provider: puppet.close().await.ok(), then the return, where the
\* router guard goes out of scope
Close(t) ==
    LET T == tasks[t]
    IN  /\ T.pc = "close"
        /\ sessions' = [sessions EXCEPT ![t] = "closed"]
        /\ routerLock' = FreeLock
        /\ Return(t, IF T.result[1].kind = "ok"
                     THEN Ok(Response(T.provider[1], T.result[1]))
                     ELSE Err("Provider"))
        /\ UNCHANGED <<routerVars, now, failRun, events, log, calls, stdio>>

\* parallel_prompt with the pair of the first provider pushed
Pushed(T, o) ==
    [T EXCEPT !.results = Append(@, [provider |-> Head(T.providers), ok |-> o.kind = "ok",
                                     resp |-> Response(Head(T.providers), o)]),
              !.providers = Tail(@),
              !.pc = IF Tail(T.providers) = <<>> THEN "batch_close" ELSE "batch_auth"]

\* parallel_prompt: puppet.authenticate(provider).await
BatchAuth(t) ==
    LET T == tasks[t]
    IN  /\ T.pc = "batch_auth"
        /\ UNCHANGED <<routerVars, now, failRun, events, routerLock, sessions, log, calls, stdio>>
        /\ \E ok \in BOOLEAN :
             IF ok THEN Goto(t, [T EXCEPT !.pc = "batch_prompt"])
             ELSE Goto(t, Pushed(T, [kind |-> "auth_err", len |-> 0]))

\* parallel_prompt: puppet.prompt(provider, request).await
BatchPrompt(t) ==
    LET T == tasks[t]
    IN  /\ T.pc = "batch_prompt"
        /\ UNCHANGED <<routerVars, now, failRun, events, routerLock, sessions, log, calls, stdio>>
        /\ \E o \in {x \in StepOutcomes : x.kind # "auth_err"} : Goto(t, Pushed(T, o))

\* parallel_prompt: puppet.close().await.ok() and the return; consensus_prompt
\* goes on with the successful responses
BatchClose(t) ==
    LET T == tasks[t]
        responses == SelectSeq(T.results, LAMBDA x : x.ok)
    IN  /\ T.pc = "batch_close"
        /\ sessions' = [sessions EXCEPT ![t] = "closed"]
        /\ Return(t, IF T.kind = "parallel_prompt" THEN Ok(T.results)
                     ELSE IF Len(responses) < T.min_providers THEN Err("NoProviders")
                     ELSE Ok(find_consensus(responses)))
        /\ UNCHANGED <<routerVars, now, failRun, events, routerLock, log, calls, stdio>>

\* one step of the call of t
TaskStep(t) ==
    \/ Call(t)
    \/ StoreWrite(t)
    \/ RouterRead(t)
    \/ GetPuppet(t)
    \/ Authenticate(t)
    \/ AdapterPrompt(t)
    \/ RouterWrite(t)
    \/ RecordStats(t)
    \/ Close(t)
    \/ BatchAuth(t)
    \/ BatchPrompt(t)
    \/ BatchClose(t)

CallsNext == \E t \in Tasks : TaskStep(t)

\* concurrent calls on one orchestrator
SpecCalls == InitStore /\ [][CallsNext]_vars

\* C24: every adapter session acquired by prompt, prompt_provider or
\* parallel_prompt is closed before the operation returns, on the success
\* path and on every error path, authentication failure included
C24_SessionsReleased ==
    [][ \A t \in Tasks :
          (/\ tasks[t].op \in {"prompt", "prompt_provider", "parallel_prompt"}
           /\ tasks'[t].pc = "idle") =>
              sessions'[t] # "open"
      ]_vars

\* the same with the return from a failed authenticate left out
C24_ReleasedUnlessAuthFails ==
    [][ \A t \in Tasks :
          (/\ tasks[t].op \in {"prompt", "prompt_provider", "parallel_prompt"}
           /\ tasks[t].pc # "authenticate"
           /\ tasks'[t].pc = "idle") =>
              sessions'[t] # "open"
      ]_vars

\* the call of t stands at an await on the adapter
AtAdapter(t) ==
    tasks[t].pc \in {"get_puppet", "authenticate", "prompt", "close",
                     "batch_auth", "batch_prompt", "batch_close"}

\* the call of t holds lock
Holds(t, lock) == lock.writer = t \/ t \in lock.readers

\* C25: no adapter I/O (session creation, authenticate, prompt, close) is
\* performed while the router lock or the workflow-store lock is held: every
\* critical section on either lock ends before the next adapter interaction
\* starts
C25_NoAdapterUnderLock ==
    \A t \in Tasks :
        AtAdapter(t) => ~Holds(t, routerLock) /\ ~Holds(t, storeLock)

\* the part of C25 that holds: outside puppet.close() no call is on the
\* adapter with the router lock in its hands
C25_RouterLockOnlyAtClose ==
    \A t \in Tasks :
        (AtAdapter(t) /\ tasks[t].pc # "close") => ~Holds(t, routerLock)

\* the router after the recorded outcomes are applied one after the other
RECURSIVE Replay(_, _)
Replay(r, recorded) ==
    IF recorded = <<>> THEN r
    ELSE LET e == Head(recorded)
         IN  Replay(IF e.ok THEN record_success(r, e.provider, e.latency)
                    ELSE record_failure(r, e.provider, e.at),
                    Tail(recorded))

\* health and stats are what the outcomes recorded so far give, in the order
\* in which the calls took the router lock
Linearised ==
    router = Replay([preferences |-> preferences, health |-> EmptyMap, stats |-> EmptyMap], log)

\* C26: under any interleaving of concurrent prompt / prompt_provider calls,
\* router health and stats equal the result of applying the recorded
\* outcomes of the calls in some sequential order: no update is lost, and a
\* concurrent selection never sees the health of a provider updated without
\* the matching stats update
C26_RecordsLinearisable ==
    [][ /\ CanRead(routerLock') => Linearised'
        /\ \A t \in Tasks :
              (tasks[t].pc = "router_read" /\ tasks'[t].pc # "router_read") => Linearised
      ]_vars

\* one call is between the two halves of its record while another waits to
\* select
C26_Witness ==
    \E t, u \in Tasks :
        /\ tasks[t].pc = "record_stats"
        /\ tasks[u].pc = "router_read"
        /\ tasks[t].provider[1] \in DOMAIN health
        /\ tasks[t].provider[1] \notin DOMAIN stats
        /\ ~Linearised

\* the caller drops the future of its call at an await: the guards and the
\* session the call holds are dropped with it, and nothing else is undone
Cancel(t) ==
    LET T == tasks[t]
    IN  /\ T.pc \notin {"idle", "record_stats"}
        /\ tasks' = [tasks EXCEPT ![t] = IdleTask]
        /\ routerLock' = IF routerLock.writer = t THEN FreeLock ELSE routerLock
        /\ storeLock' = IF storeLock.writer = t THEN FreeLock ELSE storeLock
        /\ ret' = Ret(T.op, "General", 0, T.id, Err("Cancelled"))
        /\ UNCHANGED <<routerVars, now, workflows, failRun, events, sessions, log, calls, stdio>>

CancelNext == TaskStep("t1") \/ Cancel("t1")

\* one caller whose calls may be cancelled
SpecCancel == InitStore /\ [][CancelNext]_vars

\* C27: if an in-flight execute_workflow_step request is cancelled at any
\* await, the router and the workflow are left consistent: either the success
\* is recorded in the router and the step is Completed with the cursor
\* advanced, or neither the router nor the workflow (step state, workflow
\* state, cursor) has changed since the call began
C27_CancelLeavesNoHalfState ==
    [][ \A t \in Tasks :
          LET T == tasks[t]
              before == T.snap[1].workflows[T.id]
              after == workflows'[T.id]
              i == before.current_step + 1
          IN  (/\ T.op = "execute_workflow_step"
               /\ T.id \in DOMAIN workflows
               /\ current(before) # None
               /\ tasks'[t].pc = "idle"
               /\ ret'.err = "Cancelled") =>
                \/ /\ router' = T.snap[1].router
                   /\ after.steps[i].state = before.steps[i].state
                   /\ after.state = before.state
                   /\ after.current_step = before.current_step
                \/ /\ Len(log') > 0
                   /\ log'[Len(log')].ok
                   /\ router' # T.snap[1].router
                   /\ after.steps[i].state = "Completed"
                   /\ after.current_step = before.current_step + 1
      ]_vars

\* the other half-state a cancelled call leaves: the success of the only call
\* is recorded in the router and the step is not completed
C27_HalfStates ==
    /\ calls = 1
    /\ ret.op = "execute_workflow_step"
    /\ ret.err = "Cancelled"
    /\ workflows[ret.id].steps[1].state = "Running"
    /\ workflows[ret.id].current_step = 0
    /\ stats # EmptyMap
    /\ \A p \in DOMAIN stats : stats[p].successful_requests = 1

\* OrchestratorConfig::default().timeout, in seconds
OperationTimeout == 120

TimedNext == TaskStep("t1") \/ Tick

\* the stored workflow has no Consensus step
InitTimed ==
    /\ InitStore
    /\ \A id \in WorkflowIds :
          \A i \in 1..Len(workflows[id].steps) :
              workflows[id].steps[i].config.type # "Consensus"

\* the calls of one caller while time passes.  The runtime runs a call that
\* can go on by itself (a lock it waits for is free, or it is inside
\* record_success / record_failure) and the clock moves; when the adapter
\* answers is up to the adapter
SpecTimedFair ==
    /\ InitTimed
    /\ [][TimedNext]_vars
    /\ WF_vars(Tick)
    /\ WF_vars(StoreWrite("t1") \/ RouterRead("t1") \/ RouterWrite("t1") \/ RecordStats("t1"))

\* the call of t has been with the adapter for longer than the timeout
Overdue(t) == AtAdapter(t) /\ now - tasks[t].start > OperationTimeout

\* C28: an operation whose adapter interaction exceeds the configured timeout
\* (default 120 s) is abandoned: it eventually returns with the Timeout
\* error, the router having recorded a failure for the provider and the step
\* being executed, if any, having become Failed
C28_OverdueIsAbandoned ==
    Overdue("t1") ~> (tasks["t1"].pc = "idle" /\ ret.err = "Timeout")

\* a call that took longer than the timeout came back with a response and
\* was recorded as a success
C28_LateSuccess ==
    /\ ret.ok
    /\ log # <<>>
    /\ log[Len(log)].ok
    /\ log[Len(log)].latency > OperationTimeout * 1000

(***************************************************************************)
(* The MCP server: one input line is parsed, dispatched on its method and  *)
(* answered by one response.  The server's `initialized` flag is written   *)
(* by the initialized handler and read by nothing, so it is left out.      *)
(***************************************************************************)
\* number of input lines the server reads in a run
MaxLines == 2

\* protocol::error_codes
PARSE_ERROR == -32700

METHOD_NOT_FOUND == -32601

INVALID_PARAMS == -32602

INTERNAL_ERROR == -32603

\* a JSON object is a function from its keys; Value::get
Get(object, key) == IF key \in DOMAIN object THEN Some(object[key]) ELSE None

\* faulty variant: the error response drops the id
McpResponse_error_noId(id, code, message) ==
    [id |-> None, result |-> None, error |-> Some([code |-> code, message |-> message])]

McpResponse_success(id, result) == [id |-> id, result |-> Some(result), error |-> None]

McpResponse_error(id, code, message) ==
    [id |-> id, result |-> None, error |-> Some([code |-> code, message |-> message])]

\* tools.rs parse_provider
parse_provider(s) ==
    LET l == ToLowercase(s)
    IN  CASE l = "claude" -> Ok("Claude")
          [] l = "grok" -> Ok("Grok")
          [] l = "gemini" -> Ok("Gemini")
          [] l \in {"chatgpt", "openai"} -> Ok("ChatGpt")
          [] l = "perplexity" -> Ok("Perplexity")
          [] l \in {"notebooklm", "notebook"} -> Ok("NotebookLm")
          [] OTHER -> Err("InvalidParams(unknown provider)")

\* the providers of a string list that parse_provider accepts, in order
RECURSIVE ParsedProviders(_)
ParsedProviders(names) ==
    IF names = <<>> THEN <<>>
    ELSE LET p == parse_provider(Head(names))
         IN  (IF p.ok THEN <<p.val>> ELSE <<>>) \o ParsedProviders(Tail(names))

\* the tools of register_default_tools
ToolNames ==
    {"agent_prompt", "agent_parallel_prompt", "agent_consensus", "agent_workflow_start",
     "agent_workflow_step", "agent_status", "agent_list_providers"}

\* min_providers of agent_consensus when the arguments give none
ToolMinProviders == 3

\* what the world outside does during one tools/call: whether get_puppet
\* builds a session, what the adapter answers (the same for every provider),
\* the latency measured and the UUID drawn by Workflow::new
AdapterWorlds ==
    { [puppet_ok |-> TRUE, outcomes |-> [p \in Providers |-> o], latency |-> l, uuid |-> id] :
        o \in StepOutcomes, l \in Latencies, id \in WorkflowIds }
      \cup { [puppet_ok |-> FALSE, outcomes |-> NoneAnswers, latency |-> l, uuid |-> id] :
                l \in Latencies, id \in WorkflowIds }

\* the step a step definition of agent_workflow_start stands for
StepOfDef(def) ==
    CASE def.type = "prompt" -> Ok(WorkflowStep_prompt)
      [] def.type = "parallel" ->
            Ok(WorkflowStep_parallel(IF "providers" \in DOMAIN def THEN def.providers ELSE <<>>))
      [] def.type = "consensus" -> Ok(WorkflowStep_consensus)
      [] def.type = "review" -> Ok(WorkflowStep_review)
      [] OTHER -> Err("InvalidParams(unknown step type)")

\* the steps of the definitions up to the first unknown type
RECURSIVE StepsOfDefs(_, _)
StepsOfDefs(defs, steps) ==
    IF defs = <<>> THEN Ok(steps)
    ELSE LET s == StepOfDef(Head(defs))
         IN  IF s.ok THEN StepsOfDefs(Tail(defs), Append(steps, s.val)) ELSE s

\* AgentOrchestrator::execute_workflow_step on the store ws:
\* [router, workflows, res]
execute_workflow_step(r, ws, id, world, t) ==
    IF id \notin DOMAIN ws
    THEN [router |-> r, workflows |-> ws, res |-> Err("Workflow(workflow not found)")]
    ELSE IF is_complete(ws[id])
    THEN [router |-> r, workflows |-> ws,
          res |-> Err("InvalidState(workflow already complete)")]
    ELSE IF current(ws[id]) = None
    THEN [router |-> r, workflows |-> ws, res |-> Err("InvalidState(no current step)")]
    ELSE LET Stored(out) ==
                 [router |-> out.router, workflows |-> [ws EXCEPT ![id] = out.w],
                  res |-> out.res]
         IN  Stored(execute_step(r, ws[id], world.puppet_ok, world.outcomes, world.latency, t))

\* Tool::execute of the tool registered as name: [router, workflows, res],
\* res the ToolCallResult (what its text is made from) or the error
Tool_execute(name, arguments, r, ws, t, world) ==
    LET Stay(res) == [router |-> r, workflows |-> ws, res |-> res]
        Through(call) ==
            [router |-> call.router, workflows |-> ws,
             res |-> IF call.res.ok THEN Ok([is_error |-> FALSE, of |-> <<call.res.val>>])
                     ELSE call.res]
        BadArguments == Stay(Err("InvalidParams(arguments)"))
        Has(key) == key \in DOMAIN arguments
    IN  CASE name = "agent_prompt" ->
                IF ~Has("message") THEN BadArguments
                ELSE IF Has("provider")
                THEN LET provider == parse_provider(arguments.provider)
                     IN  IF ~provider.ok THEN Stay(provider)
                         ELSE Through(prompt_provider(r, provider.val, world.puppet_ok,
                                                      world.outcomes[provider.val],
                                                      world.latency, t))
                ELSE Through(prompt(r, world.puppet_ok, world.outcomes, world.latency, t))
          [] name = "agent_parallel_prompt" ->
                IF ~(Has("message") /\ Has("providers")) THEN BadArguments
                ELSE LET providers == ParsedProviders(arguments.providers)
                     IN  IF Len(providers) < 2
                         THEN Stay(Err("InvalidParams(need at least 2 valid providers)"))
                         ELSE Through(parallel_prompt(r, providers, world.puppet_ok,
                                                      world.outcomes))
          [] name = "agent_consensus" ->
                IF ~Has("message") THEN BadArguments
                ELSE Through(consensus_prompt(r,
                                 IF Has("min_providers") THEN arguments.min_providers
                                 ELSE ToolMinProviders,
                                 world.puppet_ok, world.outcomes, t))
          [] name = "agent_workflow_start" ->
                IF ~(Has("name") /\ Has("steps")) THEN BadArguments
                ELSE LET steps == StepsOfDefs(arguments.steps, <<>>)
                     IN  IF ~steps.ok THEN Stay(steps)
                         ELSE [router |-> r,
                               workflows |-> Put(ws, world.uuid, BuildWorkflow(steps.val)),
                               res |-> Ok([is_error |-> FALSE, of |-> <<world.uuid>>])]
          [] name = "agent_workflow_step" ->
                IF ~Has("workflow_id") THEN BadArguments
                ELSE LET Report(call, workflow) ==
                             IF ~call.res.ok THEN call
                             ELSE [call EXCEPT !.res =
                                      Ok([is_error |-> FALSE,
                                          of |-> <<is_complete(workflow),
                                                   workflow.current_step>>])]
                         Shown(call) == Report(call, call.workflows[arguments.workflow_id])
                     IN  Shown(execute_workflow_step(r, ws, arguments.workflow_id, world, t))
          [] name = "agent_status" ->
                Stay(Ok([is_error |-> FALSE,
                         of |-> <<available_providers(r, t), Cardinality(DOMAIN ws)>>]))
          [] name = "agent_list_providers" ->
                Stay(Ok([is_error |-> FALSE, of |-> ProviderAll]))

\* ToolRegistry::execute
ToolRegistry_execute(name, arguments, r, ws, t, world) ==
    IF name \notin ToolNames
    THEN [router |-> r, workflows |-> ws, res |-> Err("InvalidParams(unknown tool)")]
    ELSE Tool_execute(name, arguments, r, ws, t, world)

\* the request ids on the input lines: absent, or a number
RequestIds == {None, Some(1), Some(2)}

\* the params of the tools/call requests on the input lines
ToolCallParams ==
    LET Message == [message |-> "m"]
        Of(name, argumentSets) == {[name |-> name, arguments |-> a] : a \in argumentSets}
    IN  {[arguments |-> Message], [name |-> "agent_prompt"]}
          \cup Of("agent_nothing", {Message})
          \cup Of("agent_prompt",
                  {Message,
                   [message |-> "m", provider |-> "claude"],
                   [message |-> "m", provider |-> "OpenAI"],
                   [message |-> "m", provider |-> "nobody"]})
          \cup Of("agent_parallel_prompt",
                  {Message,
                   [message |-> "m", providers |-> <<"grok", "Claude">>],
                   [message |-> "m", providers |-> <<"grok", "nobody">>]})
          \cup Of("agent_consensus", {EmptyMap, Message, [message |-> "m", min_providers |-> 2]})
          \cup Of("agent_workflow_start",
                  {Message,
                   [name |-> "n", steps |-> <<[type |-> "prompt"], [type |-> "review"]>>],
                   [name |-> "n", steps |-> <<[type |-> "prompt"], [type |-> "loop"]>>]})
          \cup Of("agent_workflow_step", {Message, [workflow_id |-> "w1"]})
          \cup Of("agent_status", {EmptyMap})
          \cup Of("agent_list_providers", {EmptyMap})

\* the input lines: text that is no McpRequest, and requests
Lines ==
    {[text |-> t, request |-> [id |-> None, method |-> "", params |-> EmptyMap]] :
        t \in {"not json", "no method"}}
      \cup {[text |-> "request", request |-> [id |-> id, method |-> m, params |-> EmptyMap]] :
              id \in RequestIds,
              m \in {"initialize", "initialized", "tools/list", "ping", "resources/list"}}
      \cup {[text |-> "request", request |-> [id |-> id, method |-> "tools/call", params |-> p]] :
              id \in RequestIds, p \in ToolCallParams}

\* serde_json::from_str::<McpRequest>
from_str(line) == IF line.text = "request" THEN Ok(line.request) ELSE Err("Serialization")

\* handle_tools_call: [router, workflows, response]
handle_tools_call(request, r, ws, t, world) ==
    LET name == Get(request.params, "name")
        arguments == IF "arguments" \in DOMAIN request.params
                     THEN request.params.arguments ELSE EmptyMap
    IN  IF name = None
        THEN [router |-> r, workflows |-> ws,
              response |-> McpResponse_error(request.id, INVALID_PARAMS, "missing tool name")]
        ELSE LET Respond(call) ==
                     [router |-> call.router, workflows |-> call.workflows,
                      response |-> IF call.res.ok
                                   THEN McpResponse_success(request.id, call.res.val)
                                   ELSE McpResponse_error(request.id, INTERNAL_ERROR,
                                                          call.res.err)]
             IN  Respond(ToolRegistry_execute(name[1], arguments, r, ws, t, world))

\* handle_message: [router, workflows, response]
handle_message(line, r, ws, t, world) ==
    LET parsed == from_str(line)
        request == parsed.val
        Answer(response) == [router |-> r, workflows |-> ws, response |-> response]
    IN  IF ~parsed.ok THEN Answer(McpResponse_error(None, PARSE_ERROR, parsed.err))
        ELSE CASE request.method = "initialize" ->
                      Answer(McpResponse_success(request.id, "capabilities"))
               [] request.method = "initialized" ->
                      Answer(McpResponse_success(request.id, "{}"))
               [] request.method = "tools/list" ->
                      Answer(McpResponse_success(request.id, "tools"))
               [] request.method = "tools/call" ->
                      handle_tools_call(request, r, ws, t, world)
               [] request.method = "ping" ->
                      Answer(McpResponse_success(request.id, "{}"))
               [] OTHER ->
                      Answer(McpResponse_error(request.id, METHOD_NOT_FOUND, "unknown method"))

\* the tools/call requests that reach start_workflow
StartsWorkflow(line) ==
    /\ line.text = "request"
    /\ line.request.method = "tools/call"
    /\ Get(line.request.params, "name") = Some("agent_workflow_start")

\* run_stdio on one line: the response written for it
HandleMessage ==
    \E line \in Lines, world \in AdapterWorlds :
        /\ calls < MaxLines
        /\ StartsWorkflow(line) => world.uuid \notin DOMAIN workflows
        /\ \E out \in {handle_message(line, router, workflows, now, world)} :
              /\ RouterStep(out.router)
              /\ workflows' = out.workflows
              /\ calls' = calls + 1
              /\ ret' = [op |-> "handle_message", line |-> line, response |-> out.response]
              /\ UNCHANGED <<now, tasks, routerLock, storeLock, sessions, log, stdio>>

ServerNext ==
    \/ Tick
    \/ HandleMessage

SpecServer == Init /\ [][ServerNext]_vars

\* the messages of the InvalidParams errors that handling a tools/call raises
InvalidParamsMessages ==
    {"missing tool name", "InvalidParams(unknown tool)", "InvalidParams(arguments)",
     "InvalidParams(unknown provider)", "InvalidParams(need at least 2 valid providers)",
     "InvalidParams(unknown step type)"}

\* the last line was answered by an error response with one of these messages
AnsweredInvalidParams ==
    /\ ret.op = "handle_message"
    /\ ret.response.error # None
    /\ ret.response.error[1].message \in InvalidParamsMessages

\* C29: every InvalidParams error raised while handling tools/call (missing
\* tool name, unknown tool name, arguments that do not match the tool's
\* schema, unknown provider string in agent_prompt) is reported as a JSON-RPC
\* error with code -32602.
C29_InvalidParamsCode ==
    AnsweredInvalidParams => ret.response.error[1].code = INVALID_PARAMS

\* what the server does instead: -32602 for the missing tool name alone, and
\* -32603 for every InvalidParams error that the registry or a tool returns
C29_InvalidParamsOnlyForMissingName ==
    AnsweredInvalidParams =>
        ret.response.error[1].code =
            IF ret.response.error[1].message = "missing tool name"
            THEN INVALID_PARAMS ELSE INTERNAL_ERROR

\* C30: every response to a request that parsed successfully (success result,
\* unknown-method error, invalid-params error, tool or orchestrator execution
\* error) carries the id of that request.
C30_ResponseCarriesRequestId ==
    (ret.op = "handle_message" /\ from_str(ret.line).ok) =>
        ret.response.id = from_str(ret.line).val.id

\* a tools/call with id 2 whose orchestrator call failed in the adapter
C30_Witness ==
    /\ ret.op = "handle_message"
    /\ from_str(ret.line).ok
    /\ ret.line.request.method = "tools/call"
    /\ ret.line.request.id = Some(2)
    /\ ret.response.id = Some(2)
    /\ ret.response.error # None
    /\ ret.response.error[1].code = INTERNAL_ERROR
    /\ ret.response.error[1].message = "Provider"

(***************************************************************************)
(* The two provider-string mappings: parse_provider of the tool surface    *)
(* and the match written out in the Prompt and ParallelPrompt arms of      *)
(* execute_workflow_step.                                                  *)
(***************************************************************************)
\* provider strings a caller may write
ProviderStrings ==
    {"claude", "Claude", "CLAUDE", "grok", "Grok", "gemini", "GEMINI", "chatgpt", "ChatGPT",
     "openai", "OpenAI", "perplexity", "Perplexity", "notebooklm", "NotebookLM",
     "notebook", "Notebook", "nobody"}

\* parse_provider(..).ok() as agent_parallel_prompt takes it
ToolProvider(s) == IF parse_provider(s).ok THEN Some(parse_provider(s).val) ELSE None

\* one string given to agent_prompt and as the provider of a Prompt step
MapProviderString ==
    \E s \in ProviderStrings :
        /\ ret' = [op |-> "map_provider", names |-> <<s>>,
                   tool |-> ToolProvider(s), step |-> StepProvider(s)]
        /\ UNCHANGED <<routerVars, now, workflows, failRun, events, callVars>>

\* a list given to agent_parallel_prompt and as the providers of a
\* ParallelPrompt step
MapProviderList ==
    \E a \in ProviderStrings, b \in ProviderStrings :
        /\ ret' = [op |-> "map_providers", names |-> <<a, b>>,
                   tool |-> ParsedProviders(<<a, b>>), step |-> FilterMapProviders(<<a, b>>)]
        /\ UNCHANGED <<routerVars, now, workflows, failRun, events, callVars>>

ProvidersNext ==
    \/ MapProviderString
    \/ MapProviderList

SpecProviders == Init /\ [][ProvidersNext]_vars

\* C31: a provider string maps to the same provider in the tool surface
\* (agent_prompt, agent_parallel_prompt) and in Prompt / ParallelPrompt
\* workflow steps.
C31_SameMapping ==
    ret.op \in {"map_provider", "map_providers"} => ret.tool = ret.step

\* the strings on which the two mappings differ: the aliases openai and
\* notebook, which only parse_provider knows
C31_SameMappingButAliases ==
    /\ ret.op = "map_provider" =>
          \/ ret.tool = ret.step
          \/ /\ ToLowercase(ret.names[1]) \in {"openai", "notebook"}
             /\ ret.step = None
             /\ ret.tool # None
    /\ ret.op = "map_providers" =>
          \/ ret.tool = ret.step
          \/ \E i \in 1..2 : ToLowercase(ret.names[i]) \in {"openai", "notebook"}

(***************************************************************************)
(* Scores of routers with long histories.  The score is kept in tenths,    *)
(* which is exact: every term but the usage term is a whole number and     *)
(* the usage term is a whole number of tenths below 10, so two scores      *)
(* that differ differ by at least 0.1, far above the rounding of f64.      *)
(***************************************************************************)
\* what one provider has been through: nothing, or total requests of which
\* the last failed were failures
ProviderHistories ==
    {[total |-> 0, failed |-> 0]}
      \cup {[total |-> n, failed |-> f] : n \in {1, 99, 100}, f \in {0, 1}}

\* the providers with a history in these routers
ScoredProviders == {"Claude", "ChatGpt", "Gemini"}

\* the health entry and the stats entry after such a history
HealthAfter(h) ==
    [last_failure |-> IF h.failed > 0 THEN Some(0) ELSE None,
     consecutive_failures |-> h.failed,
     avg_latency |-> IF h.total > h.failed THEN Some(12000) ELSE None]

StatsAfterHistory(h) ==
    [total_requests |-> h.total, successful_requests |-> h.total - h.failed,
     failed_requests |-> h.failed]

\* default priorities, or ChatGPT moved to within 10 of Claude
ScorePreferences ==
    { ProviderPreferences_default,
      [ProviderPreferences_default EXCEPT !.priorities["chatgpt"] = 95] }

InitScore ==
    /\ preferences \in ScorePreferences
    /\ \E hist \in [ScoredProviders -> ProviderHistories] :
          LET touched == {p \in ScoredProviders : hist[p].total > 0}
          IN  /\ health = [p \in touched |-> HealthAfter(hist[p])]
              /\ stats = [p \in touched |-> StatsAfterHistory(hist[p])]
              /\ failRun = [p \in Providers |-> IF p \in touched THEN hist[p].failed ELSE 0]
    /\ now = 0
    /\ workflows = EmptyMap
    /\ ret = Ret("new", "General", 0, "none", Unit)
    /\ events = 0
    /\ InitCalls

\* score_provider on two providers of one router, as the selection loops
\* do; each router is looked at once
ScorePair ==
    \E a \in Providers, b \in Providers, task_type \in TaskTypes :
        /\ ret.op = "new"
        /\ ret' = [op |-> "score_pair", a |-> a, b |-> b, task |-> task_type,
                   score_a |-> score_provider(router, a, task_type),
                   score_b |-> score_provider(router, b, task_type)]
        /\ UNCHANGED <<routerVars, now, workflows, failRun, events, callVars>>

ScoreNext == ScorePair

SpecScore == InitScore /\ [][ScoreNext]_vars

\* the terms of the score other than priority and usage
TaskBonus(p, task_type) ==
    score_provider([preferences |-> preferences, health |-> EmptyMap, stats |-> EmptyMap],
                   p, task_type) - 10 * priority(preferences, p)

FailureCount(p) == HealthOf(p).consecutive_failures

LatencyPenalty(p) ==
    IF HealthOf(p).avg_latency = None THEN 0 ELSE HealthOf(p).avg_latency[1] \div 1000

\* the pair scored last differs in priority by 10 or more and in nothing
\* else but the request counts
PriorityDecides ==
    /\ ret.op = "score_pair"
    /\ ~Unhealthy(ret.a, now) /\ ~Unhealthy(ret.b, now)
    /\ TaskBonus(ret.a, ret.task) = TaskBonus(ret.b, ret.task)
    /\ FailureCount(ret.a) = FailureCount(ret.b)
    /\ LatencyPenalty(ret.a) = LatencyPenalty(ret.b)
    /\ priority(preferences, ret.a) >= priority(preferences, ret.b) + 10

\* C32: for two eligible providers with equal task bonus, failure count and
\* latency penalty whose priorities differ by 10 or more, the one with the
\* higher priority has the strictly higher score whatever the two
\* total_requests values are.
C32_PriorityNotOverridden ==
    PriorityDecides => ret.score_a > ret.score_b

\* Claude at 99 requests against ChatGPT at 100, which counts as 0: the
\* largest usage penalty against the smallest, one tenth apart
C32_Witness ==
    /\ PriorityDecides
    /\ ret.a = "Claude" /\ ret.b = "ChatGpt" /\ ret.task = "Code"
    /\ StatsOf("Claude").total_requests = 99
    /\ StatsOf("ChatGpt").total_requests = 100
    /\ ret.score_a = ret.score_b + 1

(***************************************************************************)
(* The latency average under samples of different sizes.  The code works   *)
(* in f64, (avg * 0.9 + sample * 0.1) as u64; on millisecond values this   *)
(* is the whole part of (9 * avg + sample) / 10.                           *)
(***************************************************************************)
\* latencies (ms) of the successes recorded here
LatencySamples == {0, 999, 1005, 12000}

\* record_success with a latency of any of these sizes
RecordSample ==
    \E provider \in RecProviders, latency \in LatencySamples :
        /\ events < MaxRequests
        /\ SetRouter(record_success(router, provider, latency))
        /\ failRun' = [failRun EXCEPT ![provider] = 0]
        /\ events' = events + 1
        /\ ret' = [op |-> "record_sample", provider |-> provider, latency |-> latency]
        /\ UNCHANGED <<now, workflows, callVars>>

LatencyNext ==
    \/ RecordSample
    \/ RecordFailure

SpecLatency == Init /\ [][LatencyNext]_vars

\* C33: avg_latency equals the first success sample after it, and is then
\* updated to the integer truncation of 0.9 * avg + 0.1 * sample (ms);
\* record_failure leaves avg_latency unchanged.
C33_LatencyAverage ==
    [][ /\ ret'.op = "record_sample" =>
              LET p == ret'.provider
                  sample == ret'.latency
                  before == HealthOf(p).avg_latency
                  after == health'[p].avg_latency
              IN  /\ after # None
                  /\ before = None => after[1] = sample
                  /\ before # None =>
                        /\ 10 * after[1] <= 9 * before[1] + sample
                        /\ 9 * before[1] + sample < 10 * after[1] + 10
                  /\ \A q \in DOMAIN health \ {p} : health'[q] = health[q]
        /\ ret'.op = "record_failure" =>
              \A q \in Providers :
                  /\ q \in DOMAIN health => health'[q].avg_latency = health[q].avg_latency
                  /\ (q \notin DOMAIN health /\ q \in DOMAIN health') =>
                        health'[q].avg_latency = None
      ]_vars

\* 1005 ms, then 999 ms, which gives 1004.4 and is cut to 1004, then a
\* failure that leaves the 1004
C33_Witness ==
    /\ ret.op = "record_failure"
    /\ "Claude" \in DOMAIN health
    /\ health["Claude"].avg_latency = Some(1004)
    /\ health["Claude"].consecutive_failures = 1

\* the call of t stands before a step that execute_workflow_step has no arm for
AtUnsupportedStep(t) ==
    /\ tasks[t].pc = "store_write"
    /\ CanWrite(storeLock)
    /\ tasks[t].id \in DOMAIN workflows
    /\ ~is_complete(workflows[tasks[t].id])
    /\ current(workflows[tasks[t].id]) # None
    /\ current(workflows[tasks[t].id])[1].config.type \in {"Conditional", "Tool"}

\* C34: execute_workflow_step on a workflow whose current step is Conditional
\* or Tool returns Workflow("unsupported step type"), does not advance
\* current_step, stores no result, and contacts neither the router nor the
\* adapter.
C34_UnsupportedStep ==
    [][ \A t \in Tasks :
          (AtUnsupportedStep(t) /\ tasks'[t] # tasks[t]) =>
              LET id == tasks[t].id
                  w == workflows[id]
              IN  /\ tasks'[t].pc = "idle"
                  /\ ret'.op = "execute_workflow_step"
                  /\ ~ret'.ok
                  /\ ret'.err = "Workflow(unsupported step type)"
                  /\ workflows'[id].current_step = w.current_step
                  /\ \A i \in 1..Len(w.steps) : workflows'[id].steps[i].result = None
                  /\ health' = health /\ stats' = stats /\ log' = log
                  /\ routerLock' = routerLock
                  /\ sessions' = sessions
      ]_vars

\* the call on a Tool step has returned: the adapter was never asked for a
\* session and the router has seen nothing
C34_Witness ==
    /\ ret.op = "execute_workflow_step"
    /\ ret.err = "Workflow(unsupported step type)"
    /\ workflows["w1"].steps[1].config.type = "Tool"
    /\ workflows["w1"].current_step = 0
    /\ workflows["w1"].steps[1].result = None
    /\ \A t \in Tasks : sessions[t] = "none"
    /\ health = EmptyMap /\ log = <<>>

(***************************************************************************)
(* status() beside the other calls.  status takes router.read(), keeps     *)
(* the guard, takes workflows.read() and drops both when it returns.       *)
(***************************************************************************)
StatusCall(t) ==
    /\ tasks[t].pc = "idle"
    /\ calls < MaxCalls
    /\ tasks' = [tasks EXCEPT ![t] = [IdleTask EXCEPT !.op = "status", !.kind = "status",
                                                      !.start = now, !.pc = "status_router"]]
    /\ calls' = calls + 1
    /\ UNCHANGED <<routerVars, now, workflows, ret, failRun, events,
                   routerLock, storeLock, sessions, log, stdio>>

\* let router = self.router.read().await
StatusRouterRead(t) ==
    /\ tasks[t].pc = "status_router"
    /\ CanRead(routerLock)
    /\ routerLock' = [routerLock EXCEPT !.readers = @ \cup {t}]
    /\ tasks' = [tasks EXCEPT ![t].pc = "status_store"]
    /\ UNCHANGED <<routerVars, now, workflows, ret, failRun, events,
                   storeLock, sessions, log, calls, stdio>>

\* let workflows = self.workflows.read().await, the status value, and both
\* guards dropped
StatusStoreRead(t) ==
    /\ tasks[t].pc = "status_store"
    /\ CanRead(storeLock)
    /\ routerLock' = [routerLock EXCEPT !.readers = @ \ {t}]
    /\ tasks' = [tasks EXCEPT ![t] = IdleTask]
    /\ ret' = Ret("status", "General", 0, "none",
                  Ok(<<[available_providers |-> available_providers(router, now),
                        active_workflows |-> Cardinality(DOMAIN workflows),
                        provider_stats |-> stats]>>))
    /\ UNCHANGED <<routerVars, now, workflows, failRun, events,
                   storeLock, sessions, log, calls, stdio>>

\* the steps a call of t takes once it has been made
Runs(t) ==
    \/ StoreWrite(t)
    \/ RouterRead(t)
    \/ GetPuppet(t)
    \/ Authenticate(t)
    \/ AdapterPrompt(t)
    \/ RouterWrite(t)
    \/ RecordStats(t)
    \/ Close(t)
    \/ BatchAuth(t)
    \/ BatchPrompt(t)
    \/ BatchClose(t)

\* one caller makes the prompt and workflow calls, the other asks for status
OverlapNext ==
    \/ TaskStep("t1")
    \/ StatusCall("t2")
    \/ StatusRouterRead("t2")
    \/ StatusStoreRead("t2")

\* every adapter call returns and a call that is runnable again and again
\* is run
SpecOverlapFair ==
    /\ InitTimed
    /\ [][OverlapNext]_vars
    /\ SF_vars(Runs("t1"))
    /\ SF_vars(StatusRouterRead("t2") \/ StatusStoreRead("t2"))

\* C35: when status() runs concurrently with execute_workflow_step, both
\* calls always eventually return (every adapter call returns, the locks
\* are fair).
C35_BothReturn ==
    /\ (tasks["t1"].pc # "idle") ~> (tasks["t1"].pc = "idle")
    /\ (tasks["t2"].pc # "idle") ~> (tasks["t2"].pc = "idle")

\* the state in which neither call can go on: execute_workflow_step holds
\* the store write lock and waits for router.write() in prompt_provider,
\* status holds a router read guard and waits for workflows.read()
C35_LockCycle ==
    /\ tasks["t1"].op = "execute_workflow_step"
    /\ tasks["t1"].pc = "router_write"
    /\ storeLock.writer = "t1"
    /\ tasks["t2"].pc = "status_store"
    /\ "t2" \in routerLock.readers

\* the only way in which a call never returns is that cycle
C35_StuckOnlyInCycle ==
    (\A t \in Tasks : tasks[t].pc # "idle" => ~ENABLED (Runs(t) \/ StatusRouterRead(t) \/ StatusStoreRead(t)))
        => (C35_LockCycle \/ \A t \in Tasks : tasks[t].pc = "idle")

\* C36: in every workflow built with Workflow::new and add_step, inserted once
\* by start_workflow and driven only by execute_workflow_step, every step at
\* an index below current_step is Completed with a result set, and every
\* step at an index above current_step is Pending with no result.
C36_StepsAroundCursor ==
    \A id \in DOMAIN workflows :
        LET w == workflows[id]
        IN  \A i \in 1..Len(w.steps) :
                /\ i - 1 < w.current_step =>
                      (w.steps[i].state = "Completed" /\ w.steps[i].result # None)
                /\ i - 1 > w.current_step =>
                      (w.steps[i].state = "Pending" /\ w.steps[i].result = None)

\* the first step of two is done and a call on the second, a review step,
\* has come back: one step below the cursor, none above
C36_Witness ==
    /\ "w1" \in DOMAIN workflows
    /\ ret.op = "execute_workflow_step"
    /\ Len(workflows["w1"].steps) = 2
    /\ workflows["w1"].current_step = 1
    /\ workflows["w1"].steps[1].state = "Completed"
    /\ workflows["w1"].steps[1].result # None
    /\ workflows["w1"].steps[2].state = "WaitingForHuman"

\* a call on the first step of two failed: the step above the cursor is untouched
C36_WitnessAbove ==
    /\ "w1" \in DOMAIN workflows
    /\ ret.op = "execute_workflow_step"
    /\ ~ret.ok
    /\ Len(workflows["w1"].steps) = 2
    /\ workflows["w1"].current_step = 0
    /\ workflows["w1"].steps[1].state = "Running"
    /\ workflows["w1"].steps[2].state = "Pending"

\* the execute_workflow_step call of t has loaded its workflow and has not
\* returned
InStep(t) ==
    /\ tasks[t].op = "execute_workflow_step"
    /\ tasks[t].pc \notin {"idle", "store_write"}

\* this step is the return of a StepResult by a call on workflow id
ReturnsResult(id) ==
    \E t \in Tasks :
        /\ tasks[t].op = "execute_workflow_step"
        /\ tasks[t].id = id
        /\ tasks[t].pc # "idle"
        /\ tasks'[t].pc = "idle"
        /\ ret'.ok

\* C37: execute_workflow_step calls are mutually exclusive: at most one call
\* is between loading the workflow and returning, so two concurrent calls for
\* the same workflow never execute the same step index twice, and the cursor
\* advances by exactly the number of calls that returned a StepResult.
C37_StepsMutuallyExclusive ==
    [][ /\ \A a \in Tasks, b \in Tasks : (InStep(a) /\ InStep(b)) => a = b
        /\ \A a \in Tasks, b \in Tasks : (InStep(a)' /\ InStep(b)') => a = b
        /\ \A id \in DOMAIN workflows :
              /\ workflows'[id].current_step =
                    workflows[id].current_step + (IF ReturnsResult(id) THEN 1 ELSE 0)
              /\ ReturnsResult(id) =>
                    /\ workflows[id].steps[workflows[id].current_step + 1].state = "Running"
                    /\ workflows'[id].steps[workflows[id].current_step + 1].state = "Completed"
      ]_vars

\* two calls on the two-step workflow were made before either returned; the
\* first has returned its result and the second now runs the second step
C37_Witness ==
    \E t \in Tasks :
        /\ InStep(t)
        /\ tasks[t].snap # None
        /\ tasks[t].snap[1].workflows["w1"].current_step = 0
        /\ ret.op = "execute_workflow_step"
        /\ ret.ok
        /\ workflows["w1"].current_step = 1
        /\ workflows["w1"].steps[1].state = "Completed"
        /\ workflows["w1"].steps[2].state = "Running"

\* C38: execute_workflow_step called again on a workflow that is Paused at a
\* HumanReview step is idempotent: it returns the same waiting-for-human-review
\* error and leaves the workflow Paused, the step WaitingForHuman and
\* current_step unchanged, however many times it is repeated.
C38_ReviewIdempotent ==
    [][ \A id \in DOMAIN workflows :
          LET w == workflows[id]
              after == workflows'[id]
          IN  (PausedAtReview(w) /\ current(w)[1].config.type = "HumanReview"
                 /\ ret'.op = "execute_workflow_step" /\ ret'.id = id) =>
                /\ ~ret'.ok
                /\ ret'.err = "Workflow(waiting for human review)"
                /\ PausedAtReview(after)
                /\ after.current_step = w.current_step
                /\ after = w
                /\ execute_step(router, after, TRUE, AllAnswer, 12000, now).w = after
                /\ UNCHANGED routerVars
      ]_vars

\* a workflow whose only step is a review, paused by a call; a repeated call
\* ends in this same state
C38_Witness ==
    \E id \in DOMAIN workflows :
        /\ ret.op = "execute_workflow_step"
        /\ ret.id = id
        /\ ret.err = "Workflow(waiting for human review)"
        /\ PausedAtReview(workflows[id])
        /\ Len(workflows[id].steps) = 1
        /\ execute_step(router, workflows[id], TRUE, AllAnswer, 12000, now).res
              = Err("Workflow(waiting for human review)")
        /\ execute_step(router, workflows[id], TRUE, AllAnswer, 12000, now).w = workflows[id]

(***************************************************************************)
(* ParallelPrompt steps.  The store starts with one workflow of two        *)
(* ParallelPrompt steps; each call is recorded with what the adapter did   *)
(* during it (world): whether get_puppet built a session and the outcome   *)
(* of each provider the step reached.                                      *)
(***************************************************************************)
\* the provider lists of the steps: empty, unknown names only, mixed case with
\* an unknown name between known ones, reversed order, one provider twice
ParallelLists ==
    { <<>>,
      <<"nobody">>,
      <<"claude", "nobody", "Gemini">>,
      <<"Gemini", "claude">>,
      <<"claude", "claude">> }

InitParallel ==
    /\ preferences = ProviderPreferences_default
    /\ health = EmptyMap
    /\ stats = EmptyMap
    /\ now = 0
    /\ ret = Ret("new", "General", 0, "none", Unit)
    /\ failRun = [p \in Providers |-> 0]
    /\ events = 0
    /\ InitCalls
    /\ \E a \in ParallelLists, b \in ParallelLists :
          workflows = Put(EmptyMap, "w1",
                          BuildWorkflow(<<WorkflowStep_parallel(a), WorkflowStep_parallel(b)>>))

\* Ret of execute_workflow_step together with the adapter's behaviour
RetStep(id, world, res) ==
    [op |-> "execute_workflow_step", id |-> id, world |-> world,
     ok |-> res.ok, val |-> res.val, err |-> res.err]

ExecuteParallelStep ==
    \E id \in WorkflowIds :
        IF id \notin DOMAIN workflows
        THEN /\ ret' = RetStep(id, None, Err("Workflow(workflow not found)"))
             /\ UNCHANGED <<callVars, routerVars, now, workflows, failRun, events>>
        ELSE IF is_complete(workflows[id])
        THEN /\ ret' = RetStep(id, None, Err("InvalidState(workflow already complete)"))
             /\ UNCHANGED <<callVars, routerVars, now, workflows, failRun, events>>
        ELSE IF current(workflows[id]) = None
        THEN /\ ret' = RetStep(id, None, Err("InvalidState(no current step)"))
             /\ UNCHANGED <<callVars, routerVars, now, workflows, failRun, events>>
        ELSE \E puppet_ok \in BOOLEAN, latency \in Latencies,
                outcomes \in [ReachedProviders(router, workflows[id], now) -> StepOutcomes] :
                \E out \in {execute_step(router, workflows[id], puppet_ok, outcomes, latency, now)} :
                    /\ SetRouter(out.router)
                    /\ workflows' = [workflows EXCEPT ![id] = out.w]
                    /\ ret' = RetStep(id, Some([puppet_ok |-> puppet_ok, outcomes |-> outcomes]),
                                      IF out.res.ok THEN Ok(<<out.res.val>>) ELSE out.res)
                    /\ UNCHANGED <<now, callVars, failRun, events>>

ParallelNext == Tick \/ ExecuteParallelStep

SpecParallel == InitParallel /\ [][ParallelNext]_vars

\* the names of a list that the step maps to a provider, in input order
KnownNames(names) == SelectSeq(names, LAMBDA s : StepProvider(s) # None)

\* the responses a step over names must hold: one per listed known name whose
\* provider answered, in input order
SuccessfulResponses(names, outcomes) ==
    LET answered == SelectSeq(KnownNames(names),
                              LAMBDA s : outcomes[StepProvider(s)[1]].kind = "ok")
    IN  [i \in 1..Len(answered) |->
            LET p == StepProvider(answered[i])[1]
            IN  [provider |-> ProviderToString(p),
                 text |-> [src |-> p, len |-> outcomes[p].len],
                 selected |-> FALSE]]

\* the call ran the ParallelPrompt step at the cursor of w with a session
ParallelStepRan(id) ==
    /\ id \in DOMAIN workflows
    /\ ~is_complete(workflows[id])
    /\ current(workflows[id]) # None
    /\ current(workflows[id])[1].config.type = "ParallelPrompt"
    /\ ret'.op = "execute_workflow_step"
    /\ ret'.id = id
    /\ workflows' # workflows \/ ret' # ret
    /\ ret'.world # None
    /\ ret'.world[1].puppet_ok

\* C40: a ParallelPrompt step completes and advances the workflow whenever the
\* adapter session is acquired, even if every listed provider fails or no
\* listed name is known; the responses of its StepResult are exactly the
\* successful responses, in input order.
C40_ParallelStepCompletes ==
    [][ \A id \in WorkflowIds :
          ParallelStepRan(id) =>
            LET w == workflows[id]
                after == workflows'[id]
                names == current(w)[1].config.providers
                done == after.steps[w.current_step + 1]
            IN  /\ ret'.ok
                /\ after.current_step = w.current_step + 1
                /\ done.state = "Completed"
                /\ done.result = Some(ret'.val[1])
                /\ after.state = IF w.current_step + 1 = Len(w.steps)
                                 THEN "Completed" ELSE "Running"
                /\ ret'.val[1].responses
                     = Some(SuccessfulResponses(names, ret'.world[1].outcomes))
                /\ ret'.val[1].provider = None
      ]_vars

\* a step all of whose providers failed has completed with no responses, after
\* a step with no known name did
C40_Witness ==
    /\ "w1" \in DOMAIN workflows
    /\ ret.op = "execute_workflow_step"
    /\ ret.ok
    /\ ret.world # None
    /\ ret.world[1].puppet_ok
    /\ DOMAIN ret.world[1].outcomes # {}
    /\ \A p \in DOMAIN ret.world[1].outcomes : ret.world[1].outcomes[p].kind # "ok"
    /\ ret.val[1].responses = Some(<<>>)
    /\ workflows["w1"].state = "Completed"
    /\ KnownNames(workflows["w1"].steps[1].config.providers) = <<>>
    /\ workflows["w1"].steps[1].state = "Completed"

\* answers come back in input order: Gemini before Claude when listed so
C40_WitnessOrder ==
    /\ "w1" \in DOMAIN workflows
    /\ ret.op = "execute_workflow_step"
    /\ ret.ok
    /\ Len(ret.val[1].responses[1]) = 2
    /\ ret.val[1].responses[1][1].provider = ProviderToString("Gemini")
    /\ ret.val[1].responses[1][2].provider = ProviderToString("Claude")

(***************************************************************************)
(* run_stdio.  stdio.input is what stdin will deliver, line by line;       *)
(* stdio.next is the line reader.lines() yields next; stdio.pc is where    *)
(* the loop stands: "read" at the head of the for loop, "handle" with a    *)
(* non-empty line before handle_message, "write" with the response before  *)
(* writeln!, "done" after the end of input (Ok), "failed" after an I/O     *)
(* error (Err).  stdio.output is what has been written and flushed; each   *)
(* item also records (history) the input line it was computed for.         *)
(***************************************************************************)
\* number of lines stdin delivers
MaxInput == 3

EmptyLine == [text |-> "", request |-> [id |-> None, method |-> "", params |-> EmptyMap]]

\* the lines stdin delivers: an empty line, a line that does not parse, a
\* notification, requests with an id, a request of an unknown method, a tool call
StdioLines ==
    { EmptyLine,
      [text |-> "not json", request |-> [id |-> None, method |-> "", params |-> EmptyMap]],
      [text |-> "request", request |-> [id |-> None, method |-> "initialized", params |-> EmptyMap]],
      [text |-> "request", request |-> [id |-> Some(1), method |-> "ping", params |-> EmptyMap]],
      [text |-> "request", request |-> [id |-> Some(2), method |-> "resources/list", params |-> EmptyMap]],
      [text |-> "request",
       request |-> [id |-> Some(2), method |-> "tools/call",
                    params |-> [name |-> "agent_prompt",
                                arguments |-> [message |-> "m", provider |-> "claude"]]]] }

RECURSIVE InputsOfLen(_)
InputsOfLen(n) ==
    IF n = 0 THEN {<<>>}
    ELSE {Append(q, l) : q \in InputsOfLen(n - 1), l \in StdioLines}

StdioInputs == UNION {InputsOfLen(n) : n \in 0..MaxInput}

\* a server constructed by AgentMcpServer::new, run_stdio entered
InitStdio ==
    /\ preferences = ProviderPreferences_default
    /\ health = EmptyMap
    /\ stats = EmptyMap
    /\ now = 0
    /\ workflows = EmptyMap
    /\ ret = Ret("new", "General", 0, "none", Unit)
    /\ failRun = [p \in Providers |-> 0]
    /\ events = 0
    /\ tasks = [t \in Tasks |-> IdleTask]
    /\ routerLock = FreeLock
    /\ storeLock = FreeLock
    /\ sessions = [t \in Tasks |-> "none"]
    /\ log = <<>>
    /\ calls = 0
    /\ \E input \in StdioInputs :
          stdio = [NoStdio EXCEPT !.input = input, !.pc = "read"]

StdioOnly == <<routerVars, now, workflows, ret, failRun, events,
               tasks, routerLock, storeLock, sessions, log, calls>>

\* faulty variant: the next line is read without waiting for the write
StdioRead_ahead ==
    /\ stdio.pc \in {"read", "write"}
    /\ stdio.next <= Len(stdio.input)
    /\ LET line == stdio.input[stdio.next]
       IN  stdio' = IF line.text = ""
                    THEN [stdio EXCEPT !.next = @ + 1]
                    ELSE [stdio EXCEPT !.next = @ + 1, !.pc = "handle", !.line = Some(line),
                                       !.response = None]
    /\ UNCHANGED StdioOnly

\* reader.lines() yields a line: an empty one is skipped, another one is handled
StdioRead ==
    /\ stdio.pc = "read"
    /\ stdio.next <= Len(stdio.input)
    /\ LET line == stdio.input[stdio.next]
       IN  stdio' = IF line.text = ""
                    THEN [stdio EXCEPT !.next = @ + 1]
                    ELSE [stdio EXCEPT !.next = @ + 1, !.pc = "handle", !.line = Some(line)]
    /\ UNCHANGED StdioOnly

\* reader.lines() ends: run_stdio returns Ok(())
StdioEnd ==
    /\ stdio.pc = "read"
    /\ stdio.next > Len(stdio.input)
    /\ stdio' = [stdio EXCEPT !.pc = "done"]
    /\ UNCHANGED StdioOnly

\* reader.lines() yields an error: run_stdio returns it
StdioReadFails ==
    /\ stdio.pc = "read"
    /\ stdio.next <= Len(stdio.input)
    /\ stdio' = [stdio EXCEPT !.pc = "failed"]
    /\ UNCHANGED StdioOnly

\* self.handle_message(&line).await
StdioHandle ==
    /\ stdio.pc = "handle"
    /\ \E world \in AdapterWorlds :
          \E out \in {handle_message(stdio.line[1], router, workflows, now, world)} :
              /\ RouterStep(out.router)
              /\ workflows' = out.workflows
              /\ ret' = [op |-> "handle_message", line |-> stdio.line[1],
                         response |-> out.response]
              /\ stdio' = [stdio EXCEPT !.pc = "write", !.response = Some(out.response)]
              /\ UNCHANGED <<now, tasks, routerLock, storeLock, sessions, log, calls>>

\* writeln! and flush succeed: the response is one more line of the output
StdioWrite ==
    /\ stdio.pc = "write"
    /\ stdio' = [stdio EXCEPT !.pc = "read", !.line = None, !.response = None,
                              !.output = Append(@, [of |-> stdio.next - 1,
                                                    json |-> stdio.response[1]])]
    /\ UNCHANGED StdioOnly

\* writeln! or flush fails: run_stdio returns the error
StdioWriteFails ==
    /\ stdio.pc = "write"
    /\ stdio' = [stdio EXCEPT !.pc = "failed"]
    /\ UNCHANGED StdioOnly

StdioNext ==
    \/ Tick
    \/ StdioRead
    \/ StdioEnd
    \/ StdioReadFails
    \/ StdioHandle
    \/ StdioWrite
    \/ StdioWriteFails

SpecStdio == InitStdio /\ [][StdioNext]_vars

\* the positions of the non-empty lines among the first n lines of the input,
\* in input order
RECURSIVE NonEmptyUpTo(_)
NonEmptyUpTo(n) ==
    IF n = 0 THEN <<>>
    ELSE IF stdio.input[n].text = "" THEN NonEmptyUpTo(n - 1)
    ELSE Append(NonEmptyUpTo(n - 1), n)

\* a line has been read whose response is not written
Outstanding == stdio.line # None

\* the positions of the lines read and answered
Answered ==
    LET read == NonEmptyUpTo(stdio.next - 1)
    IN  IF Outstanding THEN SubSeq(read, 1, Len(read) - 1) ELSE read

C39_ReadAfterWrite ==
    [][ /\ stdio'.next # stdio.next => (~Outstanding /\ stdio.response = None)
        /\ stdio'.output # stdio.output =>
              /\ Outstanding
              /\ stdio'.output = Append(stdio.output,
                                        [of |-> stdio.next - 1, json |-> ret.response])
              /\ ret.line = stdio.line[1]
      ]_vars

C39_WitnessEmptyLine ==
    /\ stdio.pc = "done"
    /\ Len(stdio.input) = 3
    /\ stdio.input[2] = EmptyLine
    /\ Len(stdio.output) = 2
    /\ stdio.output[2].of = 3

====
